---- MODULE Spec2Model ----
(***************************************************************************)
(* Model of the Ghostfolio Home Assistant integration                      *)
(* (custom_components/ghostfolio): the API client's authenticated request, *)
(* the coordinator's refresh cycle (_async_update_data), the sensor and    *)
(* number platform reconcilers (_update_sensors, _update_numbers) and the  *)
(* sensor read paths.                                                      *)
(*                                                                         *)
(* Python values are encoded as follows.  A dict is a record.  A key read  *)
(* with .get() that is missing, or whose value is None, is the string      *)
(* "None" for string-valued keys and the empty tuple << >> for             *)
(* number-valued keys (a present number v is << v >>).  A key read with a  *)
(* subscript (account["id"], account["name"]) that is missing from the     *)
(* dict is Missing: reading it raises KeyError.  A call that raises is a   *)
(* result record with raised = TRUE.                                       *)
(***************************************************************************)
EXTENDS Integers, Sequences, FiniteSets, TLC

VARIABLES
    \* ---- api.py: GhostfolioAPI and one _make_authenticated_request ----
    auth_token,     \* GhostfolioAPI.auth_token: "None" or "token"
    api_pc,         \* position inside _make_authenticated_request
    api_url,        \* the endpoint of the request in progress
    gets,           \* GETs issued by the request in progress
    auths,          \* authenticate() calls made by the request in progress
    reauths,        \* authenticate() calls made because of a 401
    first_status,   \* status of the first GET ("None": not issued)
    retry_status,   \* status of the retry GET ("None": not issued)
    \* ---- __init__.py: config entry and coordinator ----
    show_totals, show_accounts, show_holdings, show_watchlist,
    loaded,         \* async_setup_entry has returned True
    data,           \* coordinator.data: the installed snapshot
    last_update_success,
    calls,          \* API calls issued by the latest refresh cycle, in order
    cycle,          \* refresh cycles run so far
    received,       \* what get_watchlist and get_market_data returned in the latest cycle
    \* ---- sensor.py / number.py: platform state ----
    known_ids,      \* sensor.py known_ids
    number_known_ids, \* number.py known_ids
    entities,       \* entities handed to async_add_entities so far
    new_entities,   \* entities handed to async_add_entities by the latest reconciliation
    \* ---- the host's entity registry and state machine, for one limit number ----
    limit_registered, \* registry.async_get_entity_id finds the limit number
    limit_state,    \* hass.states.get(entity_id): NoState or the state string
    limit_status,   \* the latest get_limit_status evaluation, << >> before the first
    limit_number,   \* the limit number entity
    limit_native,   \* its _attr_native_value: NoNum for None
    limit_effects,  \* what its latest handler did to the host, in order
    sensor_registry, \* the unique ids of the sensors in the host's entity registry
    \* ---- one pass of the inner try block over a watchlist item ----
    resolved,       \* << >> or << [item, history, result] >>
    \* ---- one read of a sensor's value or attributes ----
    metric,         \* << >> or << [sensor, inputs, result] >>
    \* ---- one refresh cycle between its awaits, and the objects it works on ----
    heap,           \* the watchlist item dicts alive, by object identity
    installed,      \* the item objects of coordinator.data["watchlist"], in order
    build           \* the locals of the _async_update_data call in progress

api_vars == <<auth_token, api_pc, api_url, gets, auths, reauths, first_status, retry_status>>
cfg_vars == <<show_totals, show_accounts, show_holdings, show_watchlist>>
coord_vars == <<loaded, data, last_update_success, calls, cycle, received>>
platform_vars == <<known_ids, number_known_ids, entities, new_entities>>
number_vars == <<limit_number, limit_native, limit_effects, sensor_registry>>
limit_vars == <<limit_registered, limit_state, limit_status, number_vars>>
cycle_vars == <<heap, installed, build>>
aux_vars == <<resolved, metric, cycle_vars>>
vars == <<api_vars, cfg_vars, coord_vars, platform_vars, limit_vars, aux_vars>>

None == "None"
Missing == "<missing>"
\* coordinator.data before the first successful refresh (None); an installed
\* snapshot is << snapshot >>.
NoData == << >>
NoNum == << >>
Num(v) == << v >>

(***************************************************************************)
(* api.py                                                                  *)
(***************************************************************************)
\* HTTP outcomes of one GET: the three status classes the code tells apart,
\* and aiohttp.ClientError (timeout, connection error).
HTTP_OK == "200"
HTTP_UNAUTHORIZED == "401"
GetOutcomes == {HTTP_OK, HTTP_UNAUTHORIZED, "other status", "ClientError"}

\* Outcomes of the POST in authenticate(): 200/201 with an authToken, 200/201
\* without one, another status (GhostfolioAuthError), aiohttp.ClientError.
AuthOutcomes == {"token", "no_token", "rejected", "client_error"}

Endpoints == {"account", "performance", "holdings", "watchlist", "market-data"}

ApiDone == api_pc \in {"idle", "returned", "GhostfolioAPIError", "GhostfolioAuthError"}

\* authenticate(): the token it stores and the position it leaves the caller at.
authenticate(outcome, next_pc) ==
    /\ auths' = auths + 1
    /\ CASE outcome = "token" -> auth_token' = "token" /\ api_pc' = next_pc
         [] outcome = "no_token" -> auth_token' = None /\ api_pc' = next_pc
         [] outcome = "rejected" -> auth_token' = auth_token /\ api_pc' = "GhostfolioAuthError"
         [] OTHER -> auth_token' = auth_token /\ api_pc' = "GhostfolioAPIError"

\* _make_authenticated_request is entered (by any of the get_* methods).
StartRequest(url) ==
    /\ ApiDone
    /\ api_url' = url
    /\ api_pc' = IF auth_token = None THEN "authenticate" ELSE "get"
    /\ gets' = 0 /\ auths' = 0 /\ reauths' = 0
    /\ first_status' = None /\ retry_status' = None
    /\ UNCHANGED auth_token

\* "if not self.auth_token: await self.authenticate()"
FirstAuthenticate(outcome) ==
    /\ api_pc = "authenticate"
    /\ authenticate(outcome, "get")
    /\ UNCHANGED <<api_url, gets, reauths, first_status, retry_status>>

\* The first GET and the branch on its status.
FirstGet(status) ==
    /\ api_pc = "get"
    /\ gets' = gets + 1
    /\ first_status' = status
    /\ api_pc' = CASE status = HTTP_OK -> "returned"
                   [] status = HTTP_UNAUTHORIZED -> "reauthenticate"
                   [] OTHER -> "GhostfolioAPIError"
    /\ UNCHANGED <<auth_token, api_url, auths, reauths, retry_status>>

\* "Token expired, re-authenticating...": authenticate() inside the 401 branch.
Reauthenticate(outcome) ==
    /\ api_pc = "reauthenticate"
    /\ reauths' = reauths + 1
    /\ authenticate(outcome, "retry")
    /\ UNCHANGED <<api_url, gets, first_status, retry_status>>

\* A retry that re-enters the 401 branch instead of failing.
RetryGetLoop(status) ==
    /\ api_pc = "retry"
    /\ gets < 4
    /\ gets' = gets + 1
    /\ retry_status' = status
    /\ api_pc' = CASE status = HTTP_OK -> "returned"
                   [] status = HTTP_UNAUTHORIZED -> "reauthenticate"
                   [] OTHER -> "GhostfolioAPIError"
    /\ UNCHANGED <<auth_token, api_url, auths, reauths, first_status>>

\* The retry GET: 200 returns, anything else raises GhostfolioAPIError.
RetryGet(status) ==
    /\ api_pc = "retry"
    /\ gets' = gets + 1
    /\ retry_status' = status
    /\ api_pc' = IF status = HTTP_OK THEN "returned" ELSE "GhostfolioAPIError"
    /\ UNCHANGED <<auth_token, api_url, auths, reauths, first_status>>

(***************************************************************************)
(* __init__.py: GhostfolioDataUpdateCoordinator._async_update_data         *)
(***************************************************************************)
\* One API call of a refresh cycle, and whether it returned (ok) or raised.
Call(endpoint, arg, ok) == [endpoint |-> endpoint, arg |-> arg, ok |-> ok]

\* Python's history[k] for a negative index k.
PyIndex(seq, k) == seq[Len(seq) + k + 1]

Abs(n) == IF n < 0 THEN -n ELSE n

\* float(entry.get("marketPrice") or 0): None and 0 give 0; a value that is
\* no number makes float() raise.
PriceRaises(entry) == ~entry.numeric
PriceOf(entry) == IF entry.marketPrice = NoNum THEN 0 ELSE entry.marketPrice[1]

max_lookback == 5

\* A lookback that walks back as long as the prices are the same.
RECURSIVE LookbackLoopUnbounded(_, _, _, _)
LookbackLoopUnbounded(history, current_price, latest_idx, lookback_count) ==
    IF Abs(latest_idx) < Len(history)
          /\ current_price = PriceOf(PyIndex(history, latest_idx - 1))
    THEN LookbackLoopUnbounded(history, current_price, latest_idx - 1, lookback_count + 1)
    ELSE [raised |-> FALSE, latest_idx |-> latest_idx, lookback_count |-> lookback_count]

\* A lookback loop without the test of the history's length: stepping
\* before the first entry raises IndexError.
RECURSIVE LookbackLoopUnguarded(_, _, _, _)
LookbackLoopUnguarded(history, current_price, latest_idx, lookback_count) ==
    IF lookback_count < max_lookback
    THEN IF Abs(latest_idx) >= Len(history)
         THEN [raised |-> TRUE, latest_idx |-> latest_idx, lookback_count |-> lookback_count]
         ELSE IF current_price # PriceOf(PyIndex(history, latest_idx - 1))
              THEN [raised |-> FALSE, latest_idx |-> latest_idx,
                    lookback_count |-> lookback_count]
              ELSE LookbackLoopUnguarded(history, current_price, latest_idx - 1,
                                         lookback_count + 1)
    ELSE [raised |-> FALSE, latest_idx |-> latest_idx, lookback_count |-> lookback_count]

\* The while loop of the smart lookback, entered with (latest_idx, lookback_count):
\* the index it settles on, or raised when a price does not parse.
RECURSIVE LookbackLoop(_, _, _, _)
LookbackLoop(history, current_price, latest_idx, lookback_count) ==
    IF lookback_count < max_lookback /\ Abs(latest_idx) < Len(history)
    THEN LET prev_entry == PyIndex(history, latest_idx - 1) IN
         IF PriceRaises(prev_entry)
         THEN [raised |-> TRUE, latest_idx |-> latest_idx, lookback_count |-> lookback_count]
         ELSE IF current_price # PriceOf(prev_entry)
              THEN [raised |-> FALSE, latest_idx |-> latest_idx,
                    lookback_count |-> lookback_count]
              ELSE LookbackLoop(history, current_price, latest_idx - 1, lookback_count + 1)
    ELSE [raised |-> FALSE, latest_idx |-> latest_idx, lookback_count |-> lookback_count]

\* Change fields that are written against every previous price that is not negative.
ChangeFieldsNonNegative(item, current_price, has_prev, prev_price) ==
    IF has_prev /\ prev_price >= 0
    THEN [item EXCEPT !.marketChange = Num(current_price - prev_price),
                      !.marketChangePercentage =
                          Num([num |-> (current_price - prev_price) * 100, den |-> prev_price])]
    ELSE item

\* "if abs(latest_idx - 1) <= len(history): ... if prev_price > 0:" the two
\* change fields; (change_val / prev_price) * 100 is kept as an exact fraction.
ChangeFields(item, current_price, has_prev, prev_price) ==
    LET change_val == current_price - prev_price
        change_pct == [num |-> change_val * 100, den |-> prev_price]
    IN IF has_prev /\ prev_price > 0
       THEN [item EXCEPT !.marketChange = Num(change_val),
                         !.marketChangePercentage = Num(change_pct)]
       ELSE item

\* Part A of the enrichment: price, date and change from a non-empty history.
\* Nothing is written to the item before the last statement that can raise.
SmartLookback(item, history) ==
    LET last_entry == PyIndex(history, -1) IN
    IF PriceRaises(last_entry) THEN [raised |-> TRUE, item |-> item]
    ELSE
    LET current_price == PriceOf(last_entry)
        loop == LookbackLoop(history, current_price, -1, 0)
    IN
    IF loop.raised THEN [raised |-> TRUE, item |-> item]
    ELSE
    LET latest_idx == loop.latest_idx
        current_entry == PyIndex(history, latest_idx)
        has_prev == Abs(latest_idx - 1) <= Len(history)
    IN
    IF has_prev /\ PriceRaises(PyIndex(history, latest_idx - 1))
    THEN [raised |-> TRUE, item |-> item]
    ELSE
    LET prev_price == IF has_prev THEN PriceOf(PyIndex(history, latest_idx - 1)) ELSE 0
        with_change == ChangeFields(item, current_price, has_prev, prev_price)
    IN [raised |-> FALSE,
        item |-> [with_change EXCEPT !.marketPrice = Num(current_price),
                                     !.marketDate = current_entry.date]]

\* Part B of the enrichment: currency and asset class from assetProfile.
\* profile.get raises when assetProfile is present but no dict (JSON null).
ProfileStep(item, profile) ==
    LET need_currency == item.currency = None
        need_class == item.assetClass = None
    IN
    IF (need_currency \/ need_class) /\ ~profile.is_dict
    THEN item
    ELSE [item EXCEPT !.currency = IF need_currency THEN profile.currency ELSE @,
                      !.assetClass = IF need_class THEN profile.assetClass ELSE @]

\* An inner try block that clears price and date when the history is empty.
EnrichItemClearing(item, market) ==
    IF ~market.ok THEN item
    ELSE IF market.marketData = << >>
         THEN ProfileStep([item EXCEPT !.marketPrice = NoNum, !.marketDate = None],
                          market.assetProfile)
         ELSE LET a == SmartLookback(item, market.marketData)
              IN IF a.raised THEN a.item ELSE ProfileStep(a.item, market.assetProfile)

\* The inner try block for one watchlist item and one get_market_data response:
\* the item as it is appended to watchlist_items.
EnrichItem(item, market) ==
    IF ~market.ok THEN item
    ELSE
    LET a == IF market.marketData # << >>
             THEN SmartLookback(item, market.marketData)
             ELSE [raised |-> FALSE, item |-> item]
    IN IF a.raised THEN a.item ELSE ProfileStep(a.item, market.assetProfile)

\* "for item in raw_items": items from position i on, given what was appended
\* so far.  item.get on an item that is no dict raises and leaves the loop.
RECURSIVE WatchlistLoop(_, _, _, _)
WatchlistLoop(raw_items, markets, i, acc) ==
    IF i > Len(raw_items) THEN acc
    ELSE
    LET item == raw_items[i] IN
    IF ~item.is_dict THEN acc
    ELSE IF item.symbol # None /\ item.dataSource # None
         THEN WatchlistLoop(raw_items, markets, i + 1,
                [watchlist_items |-> Append(acc.watchlist_items, EnrichItem(item, markets[i])),
                 calls |-> Append(acc.calls, Call("market-data", item.symbol, markets[i].ok))])
         ELSE WatchlistLoop(raw_items, markets, i + 1,
                [acc EXCEPT !.watchlist_items = Append(@, item)])

\* raw_items from the three accepted response shapes.
RawItems(wl_response) ==
    IF wl_response.shape \in {"list", "watchlist", "items"} THEN wl_response.items ELSE << >>

\* A watchlist try block that discards what was appended when an item raises.
FetchWatchlistAllOrNothing(world, calls_so_far) ==
    LET calls1 == Append(calls_so_far, Call("watchlist", None, world.watchlist.ok))
        raw_items == RawItems(world.watchlist)
        loop == WatchlistLoop(raw_items, world.markets, 1,
                              [watchlist_items |-> << >>, calls |-> calls1])
    IN IF ~world.watchlist.ok THEN [watchlist_items |-> << >>, calls |-> calls1]
       ELSE IF \E k \in DOMAIN raw_items : ~raw_items[k].is_dict
            THEN [loop EXCEPT !.watchlist_items = << >>]
            ELSE loop

\* Step 4: the watchlist try block.
FetchWatchlist(world, calls_so_far) ==
    LET calls1 == Append(calls_so_far, Call("watchlist", None, world.watchlist.ok)) IN
    IF ~world.watchlist.ok THEN [watchlist_items |-> << >>, calls |-> calls1]
    ELSE WatchlistLoop(RawItems(world.watchlist), world.markets, 1,
                       [watchlist_items |-> << >>, calls |-> calls1])

\* account.get("isExcluded") in the aggregator's loop: always false.
NeverExcluded(account) == FALSE

\* account.get("isExcluded") in the aggregator's loop.
Excluded(account) == account.isExcluded

\* Step 3: "for account in accounts_list", from position i on.
RECURSIVE AccountLoop(_, _, _, _, _)
AccountLoop(accounts_list, world, holdings_on, i, acc) ==
    IF i > Len(accounts_list) THEN acc
    ELSE
    LET account == accounts_list[i] IN
    IF Excluded(account) THEN AccountLoop(accounts_list, world, holdings_on, i + 1, acc)
    ELSE IF account.id = Missing THEN [acc EXCEPT !.raised = TRUE]
    ELSE
    LET account_id == account.id
        perf == world.perf[i]
        hold == world.hold[i]
        acc1 == [acc EXCEPT
                   !.calls = Append(@, Call("performance", account_id, perf.ok)),
                   !.account_performances =
                       IF perf.ok THEN (account_id :> perf.body) @@ @ ELSE @]
        acc2 == [acc1 EXCEPT
                   !.calls = Append(@, Call("holdings", account_id, hold.ok)),
                   !.holdings_by_account =
                       IF hold.ok THEN (account_id :> hold.holdings) @@ @ ELSE @]
    IN
    \* the warning in the except clause reads account['name']
    IF ~perf.ok /\ account.name = Missing THEN [acc1 EXCEPT !.raised = TRUE]
    ELSE IF ~holdings_on THEN AccountLoop(accounts_list, world, holdings_on, i + 1, acc1)
    ELSE IF ~hold.ok /\ account.name = Missing THEN [acc2 EXCEPT !.raised = TRUE]
    ELSE AccountLoop(accounts_list, world, holdings_on, i + 1, acc2)

EmptyMap == [x \in {} |-> x]

\* Steps 1 and 2 with the global performance failure swallowed.
MandatoryFetchLenient(world) ==
    [raised |-> ~world.accounts.ok,
     calls |-> IF world.accounts.ok
               THEN << Call("account", None, TRUE), Call("performance", None, world.global.ok) >>
               ELSE << Call("account", None, FALSE) >>,
     accounts_data |-> world.accounts.body,
     global_performance |-> world.global.body]

\* Steps 1 and 2 issued together: the global performance call does not wait
\* for the account list.
MandatoryFetchTogether(world) ==
    [raised |-> ~world.accounts.ok \/ ~world.global.ok,
     calls |-> << Call("performance", None, world.global.ok),
                  Call("account", None, world.accounts.ok) >>,
     accounts_data |-> world.accounts.body,
     global_performance |-> world.global.body]

\* Steps 1 and 2: get_accounts, then get_portfolio_performance; either failure
\* leaves the try block.
MandatoryFetch(world) ==
    IF ~world.accounts.ok
    THEN [raised |-> TRUE, calls |-> << Call("account", None, FALSE) >>,
          accounts_data |-> world.accounts.body, global_performance |-> world.global.body]
    ELSE [raised |-> ~world.global.ok,
          calls |-> << Call("account", None, TRUE), Call("performance", None, world.global.ok) >>,
          accounts_data |-> world.accounts.body, global_performance |-> world.global.body]

\* A cycle whose holdings option gates the whole per-account block.
AsyncUpdateDataGated(world, holdings_on, watchlist_on) ==
    LET m == MandatoryFetch(world) IN
    IF m.raised THEN [raised |-> TRUE, calls |-> m.calls]
    ELSE
    LET start == [raised |-> FALSE, calls |-> m.calls,
                  account_performances |-> EmptyMap, holdings_by_account |-> EmptyMap]
        loop == IF holdings_on
                THEN AccountLoop(m.accounts_data.accounts, world, holdings_on, 1, start)
                ELSE start
    IN
    IF loop.raised THEN [raised |-> TRUE, calls |-> loop.calls]
    ELSE
    LET wl == IF watchlist_on THEN FetchWatchlist(world, loop.calls)
              ELSE [watchlist_items |-> << >>, calls |-> loop.calls]
    IN [raised |-> FALSE, calls |-> wl.calls,
        snapshot |-> [accounts |-> m.accounts_data,
                      global_performance |-> m.global_performance,
                      account_performances |-> loop.account_performances,
                      account_holdings |-> loop.holdings_by_account,
                      watchlist |-> wl.watchlist_items]]

\* _async_update_data against the remote behaviour `world`: raised (UpdateFailed)
\* or the snapshot returned, and the calls issued.
AsyncUpdateData(world, holdings_on, watchlist_on) ==
    LET m == MandatoryFetch(world) IN
    IF m.raised THEN [raised |-> TRUE, calls |-> m.calls]
    ELSE
    LET loop == AccountLoop(m.accounts_data.accounts, world, holdings_on, 1,
                            [raised |-> FALSE, calls |-> m.calls,
                             account_performances |-> EmptyMap,
                             holdings_by_account |-> EmptyMap])
    IN
    IF loop.raised THEN [raised |-> TRUE, calls |-> loop.calls]
    ELSE
    LET wl == IF watchlist_on THEN FetchWatchlist(world, loop.calls)
              ELSE [watchlist_items |-> << >>, calls |-> loop.calls]
    IN [raised |-> FALSE, calls |-> wl.calls,
        snapshot |-> [accounts |-> m.accounts_data,
                      global_performance |-> m.global_performance,
                      account_performances |-> loop.account_performances,
                      account_holdings |-> loop.holdings_by_account,
                      watchlist |-> wl.watchlist_items]]

(***************************************************************************)
(* sensor.py / number.py: entity keys and reconcilers                      *)
(***************************************************************************)
entry_id == "entry1"

\* homeassistant.util.slugify on the symbols of the model: lower case, every
\* run of other characters becomes "_"; slugify(None) is "".
slugify(symbol) ==
    CASE symbol = "AAPL" -> "aapl"
      [] symbol = "MSFT" -> "msft"
      [] symbol = "BRK.B" -> "brk_b"
      [] symbol = "BRK-B" -> "brk_b"
      [] OTHER -> ""

\* An entity object: its unique id and the constructor arguments it keeps.
Entity(kind, unique_id, account_id, symbol, data_source, limit_type) ==
    [kind |-> kind, unique_id |-> unique_id, account_id |-> account_id,
     symbol |-> symbol, data_source |-> data_source, limit_type |-> limit_type]

GlobalSensorKeys ==
    << "current_value", "net_performance", "net_performance_percent", "total_investment",
       "net_performance_with_currency", "net_performance_percent_with_currency",
       "simple_gain_percent" >>

GlobalSensor(key) ==
    Entity("global", "ghostfolio_" \o key \o "_" \o entry_id, None, None, None, None)

GlobalSensors == { GlobalSensor(GlobalSensorKeys[k]) : k \in DOMAIN GlobalSensorKeys }

AccountSensorKeys ==
    << "account_value", "account_cost", "account_perf", "account_perf_pct",
       "account_simple_gain" >>

AccountSensor(key, account_id) ==
    Entity("account", "ghostfolio_" \o key \o "_" \o account_id \o "_" \o entry_id,
           account_id, None, None, None)

HoldingUniqueId(account_id, symbol) ==
    "ghostfolio_holding_" \o account_id \o "_" \o slugify(symbol) \o "_" \o entry_id

GhostfolioHoldingSensor(account_id, holding) ==
    Entity("holding", HoldingUniqueId(account_id, holding.symbol), account_id,
           holding.symbol, None, None)

WatchlistUniqueId(symbol) ==
    "ghostfolio_watchlist_" \o slugify(symbol) \o "_" \o entry_id

GhostfolioWatchlistSensor(item) ==
    Entity("watchlist", WatchlistUniqueId(item.symbol), None, item.symbol,
           item.dataSource, None)

LimitUniqueId(limit_type, account_id, symbol) ==
    "ghostfolio_limit_" \o limit_type \o "_" \o account_id \o "_" \o slugify(symbol)
        \o "_" \o entry_id

WatchlistLimitUniqueId(limit_type, symbol) ==
    "ghostfolio_watchlist_limit_" \o limit_type \o "_" \o slugify(symbol) \o "_" \o entry_id

GhostfolioLimitNumber(unique_id, symbol, limit_type, account_id) ==
    Entity("limit", unique_id, account_id, symbol, None, limit_type)

\* A known set that is replaced by the latest key instead of extended.
AddIfNewReplacing(acc, entity) ==
    IF entity.unique_id \in acc.known_ids THEN acc
    ELSE [acc EXCEPT !.known_ids = {entity.unique_id},
                     !.new_entities = Append(@, entity)]

\* "if unique_id not in known_ids: new_entities.append(...); known_ids.add(unique_id)"
AddIfNew(acc, entity) ==
    IF entity.unique_id \in acc.known_ids THEN acc
    ELSE [acc EXCEPT !.known_ids = @ \cup {entity.unique_id},
                     !.new_entities = Append(@, entity)]

RECURSIVE AddAllIfNew(_, _, _)
AddAllIfNew(acc, ents, k) ==
    IF k > Len(ents) THEN acc ELSE AddAllIfNew(AddIfNew(acc, ents[k]), ents, k + 1)

\* holdings_map.get(account_id, [])
HoldingsOf(snapshot, account_id) ==
    IF account_id \in DOMAIN snapshot.account_holdings
    THEN snapshot.account_holdings[account_id] ELSE << >>

\* A quantity test that lets every holding through.
ActiveQuantityAny(holding) == TRUE

\* float(holding.get("quantity") or 0) > 0
ActiveQuantity(holding) == holding.quantity > 0

\* sensor.py B: the per-holding sensors of one account.
HoldingSensorsOf(snapshot, account_id) ==
    LET hs == HoldingsOf(snapshot, account_id)
        active == SelectSeq(hs, ActiveQuantity)
    IN [k \in 1..Len(active) |-> GhostfolioHoldingSensor(account_id, active[k])]

\* sensor.py: the accounts loop of _update_sensors from position i on.
RECURSIVE SensorAccountLoop(_, _, _)
SensorAccountLoop(snapshot, i, acc) ==
    LET accounts_data == snapshot.accounts.accounts IN
    IF i > Len(accounts_data) THEN acc
    ELSE
    LET account == accounts_data[i] IN
    IF account.isExcluded THEN SensorAccountLoop(snapshot, i + 1, acc)
    ELSE IF account.id = Missing \/ account.name = Missing THEN [acc EXCEPT !.raised = TRUE]
    ELSE
    LET account_sensors ==
            [k \in DOMAIN AccountSensorKeys |-> AccountSensor(AccountSensorKeys[k], account.id)]
        acc1 == IF show_accounts THEN AddAllIfNew(acc, account_sensors, 1) ELSE acc
        acc2 == IF show_holdings
                THEN AddAllIfNew(acc1, HoldingSensorsOf(snapshot, account.id), 1)
                ELSE acc1
    IN SensorAccountLoop(snapshot, i + 1, acc2)

\* sensor.py: _update_sensors against the installed snapshot.  raised: the
\* callback left by an exception before async_add_entities; known_ids keeps
\* what was added up to there.
_update_sensors(snapshot, known) ==
    LET start == [raised |-> FALSE, known_ids |-> known, new_entities |-> << >>]
        acc1 == SensorAccountLoop(snapshot, 1, start)
        items == snapshot.watchlist
        sensors == [k \in 1..Len(items) |-> GhostfolioWatchlistSensor(items[k])]
    IN IF acc1.raised THEN acc1
       ELSE IF show_watchlist THEN AddAllIfNew(acc1, sensors, 1)
       ELSE acc1

\* number.py: the low and high limit numbers of one symbol.
HoldingLimits(account_id, holding) ==
    << GhostfolioLimitNumber(LimitUniqueId("low", account_id, holding.symbol),
                             holding.symbol, "low", account_id),
       GhostfolioLimitNumber(LimitUniqueId("high", account_id, holding.symbol),
                             holding.symbol, "high", account_id) >>

WatchlistLimits(item) ==
    << GhostfolioLimitNumber(WatchlistLimitUniqueId("low", item.symbol),
                             item.symbol, "low", "watchlist_scope"),
       GhostfolioLimitNumber(WatchlistLimitUniqueId("high", item.symbol),
                             item.symbol, "high", "watchlist_scope") >>

RECURSIVE AddLimits(_, _, _, _)
AddLimits(acc, account_id, hs, k) ==
    IF k > Len(hs) THEN acc
    ELSE AddLimits(AddAllIfNew(acc, HoldingLimits(account_id, hs[k]), 1), account_id, hs, k + 1)

\* number.py: the accounts loop of _update_numbers from position i on.
RECURSIVE NumberAccountLoop(_, _, _)
NumberAccountLoop(snapshot, i, acc) ==
    LET accounts_data == snapshot.accounts.accounts IN
    IF i > Len(accounts_data) THEN acc
    ELSE
    LET account == accounts_data[i] IN
    IF account.isExcluded THEN NumberAccountLoop(snapshot, i + 1, acc)
    ELSE IF account.id = Missing \/ account.name = Missing THEN [acc EXCEPT !.raised = TRUE]
    ELSE NumberAccountLoop(snapshot, i + 1,
            AddLimits(acc, account.id,
                      SelectSeq(HoldingsOf(snapshot, account.id), ActiveQuantity), 1))

RECURSIVE AddWatchlistLimits(_, _, _)
AddWatchlistLimits(acc, items, k) ==
    IF k > Len(items) THEN acc
    ELSE AddWatchlistLimits(AddAllIfNew(acc, WatchlistLimits(items[k]), 1), items, k + 1)

\* number.py: _update_numbers against the installed snapshot.
_update_numbers(snapshot, known) ==
    LET start == [raised |-> FALSE, known_ids |-> known, new_entities |-> << >>]
        acc1 == IF show_holdings THEN NumberAccountLoop(snapshot, 1, start) ELSE start
    IN IF acc1.raised THEN acc1
       ELSE IF show_watchlist THEN AddWatchlistLimits(acc1, snapshot.watchlist, 1)
       ELSE acc1

(***************************************************************************)
(* sensor.py: what a reader of an entity gets                              *)
(***************************************************************************)
\* A provider check that counts a data source it has no entry for as down.
_is_provider_down_unlisted(snapshot, data_source) ==
    IF data_source = None THEN FALSE
    ELSE IF "providers" \notin DOMAIN snapshot THEN TRUE
    ELSE \/ data_source \notin DOMAIN snapshot.providers
         \/ ~snapshot.providers[data_source].is_active

\* _is_provider_down against a snapshot.
_is_provider_down(snapshot, data_source) ==
    IF data_source = None THEN FALSE
    ELSE IF "providers" \notin DOMAIN snapshot THEN FALSE
    ELSE /\ data_source \in DOMAIN snapshot.providers
         /\ ~snapshot.providers[data_source].is_active

\* "x or y" on two optional numbers: the first that is neither None nor 0.
Truthy(n) == n # NoNum /\ n[1] # 0
PyOr(x, y) == IF Truthy(x) THEN x ELSE y

\* holding_data that looks the symbol up in every account's holdings.
holding_data_any_account(snap, e) ==
    IF snap = NoData THEN << >>
    ELSE LET all == UNION { { snap[1].account_holdings[a][k] :
                                k \in DOMAIN snap[1].account_holdings[a] }
                            : a \in DOMAIN snap[1].account_holdings }
             match == { h \in all : h.symbol = e.symbol }
         IN IF match = {} THEN << >> ELSE << CHOOSE h \in match : TRUE >>

\* GhostfolioHoldingSensor.holding_data: << h >> for the first holding of the
\* sensor's account with the sensor's symbol, << >> for None.
holding_data(snap, e) ==
    IF snap = NoData THEN << >>
    ELSE LET hs == HoldingsOf(snap[1], e.account_id)
             match == { k \in DOMAIN hs : hs[k].symbol = e.symbol }
         IN IF match = {} THEN << >>
            ELSE << hs[CHOOSE k \in match : \A j \in match : k <= j] >>

\* GhostfolioHoldingSensor.native_value
HoldingNativeValue(snap, e) ==
    LET d == holding_data(snap, e) IN
    IF d = << >> THEN NoNum
    ELSE IF _is_provider_down(snap[1], d[1].dataSource) THEN NoNum
    ELSE PyOr(d[1].valueInBaseCurrency, d[1].value)

\* GhostfolioHoldingSensor.extra_state_attributes: << >> for None, else the
\* attribute dict (the fields read from the holding itself).
HoldingAttributes(snap, e) ==
    LET d == holding_data(snap, e) IN
    IF d = << >> THEN << >>
    ELSE << [ticker |-> e.symbol, account |-> e.account_id,
             number_of_shares |-> d[1].quantity, data_source |-> d[1].dataSource] >>

\* GhostfolioBaseSensor.is_portfolio_healthy
is_portfolio_healthy(snap) ==
    \/ snap = NoData
    \/ \A a \in DOMAIN snap[1].account_holdings :
         \A k \in DOMAIN snap[1].account_holdings[a] :
            LET h == snap[1].account_holdings[a][k] IN
            ActiveQuantity(h) => ~_is_provider_down(snap[1], h.dataSource)

\* GhostfolioAccountBaseSensor.is_account_healthy
is_account_healthy(snap, account_id) ==
    \/ snap = NoData
    \/ LET account_holdings == HoldingsOf(snap[1], account_id) IN
       \A k \in DOMAIN account_holdings :
          ActiveQuantity(account_holdings[k])
              => ~_is_provider_down(snap[1], account_holdings[k].dataSource)

\* The limit number's unique id as a holding sensor e rebuilds it in
\* get_limit_status.
num_unique_id(limit_type, e) ==
    "ghostfolio_limit_" \o limit_type \o "_" \o e.account_id \o "_" \o slugify(e.symbol)
        \o "_" \o entry_id

\* The same in the watchlist sensor's get_limit_status.
watchlist_num_unique_id(limit_type, e) ==
    "ghostfolio_watchlist_limit_" \o limit_type \o "_" \o slugify(e.symbol) \o "_" \o entry_id

\* A sensor id rebuilt without the account.
sensor_unique_id_no_account(n) ==
    "ghostfolio_holding_" \o slugify(n.symbol) \o "_" \o entry_id

\* The sensor's unique id as a limit number n rebuilds it in
\* _async_trigger_sensor_update.
sensor_unique_id(n) ==
    IF n.account_id = "watchlist_scope"
    THEN "ghostfolio_watchlist_" \o slugify(n.symbol) \o "_" \o entry_id
    ELSE "ghostfolio_holding_" \o n.account_id \o "_" \o slugify(n.symbol) \o "_" \o entry_id

\* GhostfolioWatchlistSensor.item_data: << item >> for the first item of the
\* watchlist with the sensor's symbol and data source, << >> for None.
item_data(snap, e) ==
    IF snap = NoData THEN << >>
    ELSE LET watchlist == snap[1].watchlist
             match == { k \in DOMAIN watchlist :
                          /\ watchlist[k].symbol = e.symbol
                          /\ watchlist[k].dataSource = e.data_source }
         IN IF match = {} THEN << >>
            ELSE << watchlist[CHOOSE k \in match : \A j \in match : k <= j] >>

\* GhostfolioWatchlistSensor.native_value
WatchlistNativeValue(snap, e) ==
    LET d == item_data(snap, e) IN
    IF d = << >> THEN NoNum
    ELSE IF _is_provider_down(snap[1], e.data_source) THEN NoNum
    ELSE d[1].marketPrice

(***************************************************************************)
(* sensor.py: the gain percentages                                         *)
(***************************************************************************)
\* round(num / den * 100, 2), in hundredths of a percent: the integer nearest
\* to num * 10000 / den, a tie going to the even one.
Round2(num, den) ==
    LET n == IF den < 0 THEN -(num * 10000) ELSE num * 10000
        d == Abs(den)
        q == n \div d
        r == n % d
    IN IF 2 * r < d THEN q
       ELSE IF 2 * r > d THEN q + 1
       ELSE IF q % 2 = 0 THEN q ELSE q + 1

\* The "performance" dict when it, or the dict holding it, is missing: {}.
NoPerformance == [currentValueInBaseCurrency |-> NoNum, totalInvestment |-> NoNum]

\* GhostfolioBaseSensor.global_performance_data
global_performance_data(snap) ==
    IF snap = NoData THEN NoPerformance ELSE snap[1].global_performance.performance

\* GhostfolioAccountBaseSensor.account_performance_data
account_performance_data(snap, account_id) ==
    IF snap = NoData THEN NoPerformance
    ELSE IF account_id \in DOMAIN snap[1].account_performances
         THEN snap[1].account_performances[account_id].performance
         ELSE NoPerformance

\* The last three lines of both simple-gain native_value properties.
SimpleGain(current_value, total_investment) ==
    IF current_value = NoNum \/ total_investment = NoNum \/ total_investment[1] = 0
    THEN NoNum
    ELSE Num(Round2(current_value[1] - total_investment[1], total_investment[1]))

\* GhostfolioSimpleGainPercentSensor.native_value
SimpleGainPercentNativeValue(snap) ==
    IF ~is_portfolio_healthy(snap) THEN NoNum
    ELSE SimpleGain(global_performance_data(snap).currentValueInBaseCurrency,
                    global_performance_data(snap).totalInvestment)

\* GhostfolioAccountSimpleGainSensor.native_value
AccountSimpleGainNativeValue(snap, account_id) ==
    IF ~is_account_healthy(snap, account_id) THEN NoNum
    ELSE SimpleGain(account_performance_data(snap, account_id).currentValueInBaseCurrency,
                    account_performance_data(snap, account_id).totalInvestment)

\* float(x or 0) on an optional number.
FloatOr0(x) == IF x = NoNum THEN 0 ELSE x[1]

\* The "gain_pct" attribute of GhostfolioHoldingSensor.extra_state_attributes
\* for the holding dict d, in hundredths of a percent.
gain_pct(d) ==
    LET investment_in_base == FloatOr0(d.investment)
        current_value_in_base == FloatOr0(PyOr(d.valueInBaseCurrency, d.value))
        gain_value_base == current_value_in_base - investment_in_base
    IN IF investment_in_base > 0
       THEN Num(Round2(gain_value_base, investment_in_base))
       ELSE Num(0)

\* GhostfolioHoldingSensor.extra_state_attributes, the gain fields: << >> for
\* None, else the attributes computed from the holding.
HoldingGainAttributes(snap, e) ==
    LET d == holding_data(snap, e) IN
    IF d = << >> THEN << >>
    ELSE << [gain_value |-> FloatOr0(PyOr(d[1].valueInBaseCurrency, d[1].value))
                              - FloatOr0(d[1].investment),
             gain_pct |-> gain_pct(d[1])] >>

(***************************************************************************)
(* sensor.py: get_limit_status                                             *)
(***************************************************************************)
\* hass.states.get(entity_id) returning None.
NoState == "<no state>"

\* A limit number none of whose handlers has run.
NoEffects == [handler |-> None, log |-> << >>]

\* The limit values of the model and the state string of a number, str(float).
LimitValues == {0, 50}
FloatStr(v) == ToString(v) \o ".0"

\* A parse that reads every string that is no number as 0.
ParseFloatLenient(state) ==
    [raised |-> FALSE,
     value |-> IF \E v \in LimitValues : state \in {ToString(v), FloatStr(v)}
               THEN CHOOSE v \in LimitValues : state \in {ToString(v), FloatStr(v)}
               ELSE 0]

\* float(state_obj.state): the number, or ValueError.
ParseFloat(state) ==
    IF \E v \in LimitValues : state \in {ToString(v), FloatStr(v)}
    THEN [raised |-> FALSE,
          value |-> CHOOSE v \in LimitValues : state \in {ToString(v), FloatStr(v)}]
    ELSE [raised |-> TRUE, value |-> 0]

\* The two lambdas passed to get_limit_status.
compare_op(limit_type, val, limit) ==
    IF limit_type = "low" THEN val <= limit ELSE val >= limit

\* A comparator that is reached on a strict crossing only.
get_limit_status_strict(limit_type, current_value, entity_id, state_obj) ==
    LET usable == entity_id /\ state_obj \notin {NoState, None, "unknown", "unavailable"}
        parsed == ParseFloat(state_obj)
        is_set == usable /\ ~parsed.raised
    IN [is_set |-> is_set,
        is_reached |-> is_set /\ current_value > 0
                       /\ (IF limit_type = "low" THEN current_value < parsed.value
                           ELSE current_value > parsed.value)]

\* get_limit_status of the holding sensor and of the watchlist sensor: the
\* same body, evaluated against the sensor's current value.  entity_id is
\* whether the registry finds the limit number.
get_limit_status(limit_type, current_value, entity_id, state_obj) ==
    IF entity_id /\ state_obj \notin {NoState, None, "unknown", "unavailable"}
    THEN LET parsed == ParseFloat(state_obj) IN
         IF parsed.raised THEN [is_set |-> FALSE, is_reached |-> FALSE]
         ELSE [is_set |-> TRUE,
               is_reached |-> current_value > 0
                              /\ compare_op(limit_type, current_value, parsed.value)]
    ELSE [is_set |-> FALSE, is_reached |-> FALSE]

(***************************************************************************)
(* The remote service: what one refresh cycle's calls return               *)
(***************************************************************************)
MaxAccounts == 2
MaxHoldings == 1
MaxWatch == 2
MaxCycles == 3

AccountId(i) == "acc" \o ToString(i)

\* The account records the service may return at position i of the list: a
\* well-formed one, an excluded one, one without "name", one without "id".
AccountRecs(i) ==
    { [id |-> AccountId(i), name |-> "Depot", isExcluded |-> FALSE],
      [id |-> AccountId(i), name |-> "Depot", isExcluded |-> TRUE],
      [id |-> AccountId(i), name |-> Missing, isExcluded |-> FALSE],
      [id |-> Missing, name |-> "Depot", isExcluded |-> FALSE] }

AllAccountRecs == UNION { AccountRecs(i) : i \in 1..MaxAccounts }

AccountLists ==
    UNION { { al \in [1..n -> AllAccountRecs] : \A i \in 1..n : al[i] \in AccountRecs(i) }
            : n \in 0..MaxAccounts }

PerfBody ==
    [performance |-> [currentValueInBaseCurrency |-> Num(1200), totalInvestment |-> Num(1000)]]

Ok(body) == [ok |-> TRUE, body |-> body]
Failed == [ok |-> FALSE, body |-> PerfBody]

HoldingSymbols == {"AAPL"}

Holding(symbol, quantity) ==
    [symbol |-> symbol, quantity |-> quantity, valueInBaseCurrency |-> Num(quantity * 150),
     value |-> NoNum, dataSource |-> "YAHOO"]

HoldingRecs == { Holding(s, 1) : s \in HoldingSymbols }

HoldingLists == UNION { [1..n -> HoldingRecs] : n \in 0..MaxHoldings }

HoldResponses ==
    { [ok |-> FALSE, holdings |-> << >>] } \cup { [ok |-> TRUE, holdings |-> hl] : hl \in HoldingLists }

\* A watchlist item as the watchlist endpoint returns it.
RawItem(symbol, data_source, currency) ==
    [is_dict |-> TRUE, symbol |-> symbol, dataSource |-> data_source, currency |-> currency,
     assetClass |-> None, marketPrice |-> NoNum, marketDate |-> None,
     marketChange |-> NoNum, marketChangePercentage |-> NoNum]

\* An element of the watchlist that is no JSON object.
NonDictItem == [RawItem(None, None, None) EXCEPT !.is_dict = FALSE]

HistoryEntry(date, price) == [date |-> date, marketPrice |-> Num(price), numeric |-> TRUE]
BadEntry(date) == [date |-> date, marketPrice |-> NoNum, numeric |-> FALSE]

Profile(currency, asset_class) ==
    [is_dict |-> TRUE, currency |-> currency, assetClass |-> asset_class]
NullProfile == [is_dict |-> FALSE, currency |-> None, assetClass |-> None]

MarketOk(history, profile) == [ok |-> TRUE, marketData |-> history, assetProfile |-> profile]
MarketFailed == [ok |-> FALSE, marketData |-> << >>, assetProfile |-> Profile(None, None)]

WatchlistOk(shape, items) == [ok |-> TRUE, shape |-> shape, items |-> items]
WatchlistFailed == [ok |-> FALSE, shape |-> "list", items |-> << >>]

World(al, global, perf, hold, wl, markets) ==
    [accounts |-> Ok([accounts |-> al]), global |-> global, perf |-> perf, hold |-> hold,
     watchlist |-> wl, markets |-> markets]

\* The calls of position i are issued only for a non-excluded account with an id.
Fetched(al, i) == i <= Len(al) /\ ~al[i].isExcluded /\ al[i].id # Missing

DefaultHold == [ok |-> TRUE, holdings |-> << >>]

\* One world per distinguishable behaviour: a response nobody asks for is fixed.
CanonicalAccounts(al, perf, hold) ==
    \A i \in 1..MaxAccounts :
        /\ Fetched(al, i) \/ (perf[i] = Ok(PerfBody) /\ hold[i] = DefaultHold)
        /\ (Fetched(al, i) /\ al[i].name = Missing /\ ~perf[i].ok) => hold[i] = DefaultHold

NoPerf == [i \in 1..MaxAccounts |-> Ok(PerfBody)]
NoHold == [i \in 1..MaxAccounts |-> DefaultHold]
NoMarkets == [i \in 1..MaxWatch |-> MarketFailed]

AccountsFail ==
    [World(<< >>, Ok(PerfBody), NoPerf, NoHold, WatchlistFailed, NoMarkets)
        EXCEPT !.accounts = [ok |-> FALSE, body |-> [accounts |-> << >>]]]
GlobalFail == World(<< >>, Failed, NoPerf, NoHold, WatchlistFailed, NoMarkets)

GoodMarket ==
    MarketOk(<< HistoryEntry("d1", 10), HistoryEntry("d2", 12) >>, Profile("USD", "EQUITY"))

EmptyWatchlist == WatchlistOk("list", << >>)

\* The account-centred behaviours: every account list with every outcome of
\* the per-account calls, the watchlist empty; and a watchlist item that
\* comes and goes beside a well-formed account.
AccountWorlds ==
    { w \in { World(al, Ok(PerfBody), perf, hold, EmptyWatchlist, NoMarkets) :
                al \in AccountLists,
                perf \in [1..MaxAccounts -> {Ok(PerfBody), Failed}],
                hold \in [1..MaxAccounts -> HoldResponses] } :
        CanonicalAccounts(w.accounts.body.accounts, w.perf, w.hold) }
    \cup
    { World(al, Ok(PerfBody), NoPerf, NoHold,
            WatchlistOk("list", << RawItem("MSFT", "YAHOO", None) >>),
            [i \in 1..MaxWatch |-> IF i = 1 THEN GoodMarket ELSE MarketFailed]) :
        al \in { al \in AccountLists : \A i \in 1..Len(al) : al[i].name # Missing /\ al[i].id # Missing } }

Worlds == {AccountsFail, GlobalFail} \cup AccountWorlds

\* The watchlist-centred behaviours: no accounts, and every watchlist response
\* of up to MaxWatch items with every outcome of the market-data calls.
WatchSymbol(i) == IF i = 1 THEN "MSFT" ELSE "AAPL"

GoodHistory == << HistoryEntry("d1", 10), HistoryEntry("d2", 12) >>

MarketResponses ==
    { MarketFailed,
      GoodMarket,
      MarketOk(GoodHistory, NullProfile),
      MarketOk(<< BadEntry("d1") >>, Profile("USD", "EQUITY")),
      MarketOk(<< >>, Profile("USD", "EQUITY")) }

\* The item at position i and the answer to its market-data call: an item
\* without currency, one that has currency and asset class already (served
\* with a null assetProfile), one without dataSource, and a non-dict element.
WatchCases(i) ==
    { [item |-> RawItem(WatchSymbol(i), "YAHOO", None), market |-> m] : m \in MarketResponses }
    \cup { [item |-> [RawItem(WatchSymbol(i), "YAHOO", "USD") EXCEPT !.assetClass = "EQUITY"],
            market |-> MarketOk(GoodHistory, NullProfile)],
           [item |-> RawItem(WatchSymbol(i), None, None), market |-> MarketFailed],
           [item |-> NonDictItem, market |-> MarketFailed] }

\* One list per distinguishable behaviour: no call follows a non-dict element.
WatchCaseLists ==
    UNION { { cl \in [1..n -> UNION { WatchCases(i) : i \in 1..n }] :
                /\ \A i \in 1..n : cl[i] \in WatchCases(i)
                /\ \A i, j \in 1..n :
                     (j < i /\ ~cl[j].item.is_dict) => cl[i].market = MarketFailed }
            : n \in 0..MaxWatch }

WatchWorld(shape, cl) ==
    World(<< >>, Ok(PerfBody), NoPerf, NoHold,
          WatchlistOk(shape, [i \in 1..Len(cl) |-> cl[i].item]),
          [i \in 1..MaxWatch |-> IF i <= Len(cl) THEN cl[i].market ELSE MarketFailed])

OneGoodItem == << [item |-> RawItem(WatchSymbol(1), "YAHOO", None), market |-> GoodMarket] >>

WatchWorlds ==
    { WatchWorld("list", cl) : cl \in WatchCaseLists }
    \cup { WatchWorld(shape, OneGoodItem) : shape \in {"watchlist", "items", "other"} }
    \cup { World(<< >>, Ok(PerfBody), NoPerf, NoHold, WatchlistFailed, NoMarkets) }

\* The holdings-centred behaviours: well-formed accounts whose holdings lists
\* carry positive, zero and negative quantities, with and without a watchlist item.
MaxHoldingsPerAccount == 2

NormalAccount(i) == [id |-> AccountId(i), name |-> "Depot", isExcluded |-> FALSE]

QuantityRecs == { Holding(s, q) : s \in {"AAPL", "BRK.B"}, q \in {-1, 0, 1} }

QuantityLists(n) == UNION { [1..k -> QuantityRecs] : k \in 0..n }

HoldWorld(al, hold, wl) ==
    World(al, Ok(PerfBody), NoPerf, hold, wl,
          [i \in 1..MaxWatch |-> IF i = 1 THEN GoodMarket ELSE MarketFailed])

HoldOf(lists) ==
    [i \in 1..MaxAccounts |->
        IF i <= Len(lists) THEN [ok |-> TRUE, holdings |-> lists[i]] ELSE DefaultHold]

OneItemWatchlist == WatchlistOk("list", << RawItem("MSFT", "YAHOO", None) >>)

HoldWorlds ==
    { HoldWorld(<< NormalAccount(1) >>, HoldOf(<< hl >>), EmptyWatchlist) :
        hl \in QuantityLists(MaxHoldingsPerAccount) }
    \cup { HoldWorld(<< NormalAccount(1), NormalAccount(2) >>, HoldOf(<< h1, h2 >>), wl) :
             h1 \in QuantityLists(1), h2 \in {<< >>, << Holding("AAPL", 1) >>},
             wl \in {EmptyWatchlist, OneItemWatchlist} }

(***************************************************************************)
(* __init__.py: one refresh cycle between its awaits.  The watchlist items *)
(* are dicts that the enrichment writes in place, so they are objects of a *)
(* heap; a list of items is a list of object identities.                   *)
(***************************************************************************)
\* Twice the longest watchlist: the items of the installed snapshot and
\* those of the cycle in progress.
ObjectIds == 1..(2 * MaxWatch)

\* No _async_update_data call in progress.
IdleBuild ==
    [pc |-> "idle", world |-> AccountsFail, calls |-> << >>,
     accounts |-> [accounts |-> << >>], global_performance |-> PerfBody,
     account_performances |-> EmptyMap, account_holdings |-> EmptyMap,
     raw_items |-> << >>, next |-> 1, watchlist_items |-> << >>]

\* The lowest identity no live object has.
FreshId(h) == CHOOSE n \in ObjectIds \ DOMAIN h : \A m \in ObjectIds \ DOMAIN h : n <= m

\* A JSON decoder that hands out the object it decoded for the same symbol
\* before, when the installed snapshot still holds it.
RECURSIVE DecodeItemsCached(_, _, _, _)
DecodeItemsCached(h, items, i, ids) ==
    IF i > Len(items) THEN [heap |-> h, ids |-> ids]
    ELSE LET old == { j \in DOMAIN installed :
                        /\ installed[j] \notin { ids[k] : k \in DOMAIN ids }
                        /\ h[installed[j]].symbol = items[i].symbol }
         IN IF old # {}
            THEN DecodeItemsCached(h, items, i + 1,
                                   Append(ids, installed[CHOOSE j \in old : TRUE]))
            ELSE DecodeItemsCached((FreshId(h) :> items[i]) @@ h, items, i + 1,
                                   Append(ids, FreshId(h)))

\* api.py "return await response.json()": every element of the decoded
\* watchlist is a new object.
RECURSIVE DecodeItems(_, _, _, _)
DecodeItems(h, items, i, ids) ==
    IF i > Len(items) THEN [heap |-> h, ids |-> ids]
    ELSE DecodeItems((FreshId(h) :> items[i]) @@ h, items, i + 1, Append(ids, FreshId(h)))

\* The items a list of object identities stands for.
Deref(h, ids) == [k \in DOMAIN ids |-> h[ids[k]]]

(***************************************************************************)
(* Set-up, refresh and the listeners                                       *)
(***************************************************************************)
\* __init__.py: the platforms set-up is forwarded to.
PLATFORMS == {"sensor"}

\* The watchlist responses of a cycle, as received; NotFetched when the cycle
\* did not come to fetch the watchlist.
NotFetched ==
    [fetched |-> FALSE, watchlist |-> WatchlistFailed, markets |-> NoMarkets,
     holdings |-> EmptyMap]

\* The holdings lists the get_holdings calls of a cycle returned, by account id.
ReceivedHoldings(world, r) ==
    LET al == world.accounts.body.accounts
        answered == { i \in DOMAIN al :
                        \E k \in DOMAIN r.calls :
                            /\ r.calls[k].endpoint = "holdings"
                            /\ r.calls[k].arg = al[i].id /\ r.calls[k].ok }
    IN [a \in { al[i].id : i \in answered } |->
          world.hold[CHOOSE i \in answered : al[i].id = a].holdings]

Received(world, r) ==
    IF \E k \in DOMAIN r.calls : r.calls[k].endpoint = "watchlist"
    THEN [fetched |-> TRUE, watchlist |-> world.watchlist, markets |-> world.markets,
          holdings |-> ReceivedHoldings(world, r)]
    ELSE NotFetched

Range(seq) == { seq[k] : k \in DOMAIN seq }

UniqueIds(ents) == { e.unique_id : e \in ents }

\* The coordinator's listeners, in registration order: _update_sensors, then
\* _update_numbers if the number platform was set up.  An exception in a
\* listener ends the notification.
Listeners(snapshot, known, number_known, registered) ==
    \E s \in { _update_sensors(snapshot, known) } :
    \E n \in { IF "number" \in PLATFORMS /\ ~s.raised
               THEN _update_numbers(snapshot, number_known)
               ELSE [raised |-> FALSE, known_ids |-> number_known, new_entities |-> << >>] } :
    \E emitted \in { (IF s.raised THEN << >> ELSE s.new_entities)
                     \o (IF n.raised THEN << >> ELSE n.new_entities) } :
       /\ known_ids' = s.known_ids
       /\ number_known_ids' = n.known_ids
       /\ new_entities' = emitted
       /\ entities' = registered \cup Range(emitted)

\* A set-up that forwards the platform set-up whether or not the first
\* refresh succeeded: the global sensors are added before the data is read.
async_setup_entry_unconditional(world) ==
    /\ ~loaded
    /\ cycle < MaxCycles
    /\ cycle' = cycle + 1
    /\ \E r \in { AsyncUpdateData(world, show_holdings, show_watchlist) } :
       /\ calls' = r.calls
       /\ received' = Received(world, r)
       /\ loaded' = TRUE
       /\ IF r.raised
          THEN /\ last_update_success' = FALSE
               /\ entities' = GlobalSensors
               /\ known_ids' = UniqueIds(GlobalSensors)
               /\ UNCHANGED <<data, number_known_ids, new_entities>>
          ELSE /\ last_update_success' = TRUE
               /\ data' = << r.snapshot >>
               /\ Listeners(r.snapshot, UniqueIds(GlobalSensors), {}, GlobalSensors)
    /\ UNCHANGED <<api_vars, cfg_vars, limit_vars, aux_vars>>

\* __init__.py async_setup_entry: first refresh, then the platforms.  A failed
\* first refresh leaves the entry not set up (the host retries set-up later).
async_setup_entry(world) ==
    /\ ~loaded
    /\ cycle < MaxCycles
    /\ cycle' = cycle + 1
    /\ \E r \in { AsyncUpdateData(world, show_holdings, show_watchlist) } :
       /\ calls' = r.calls
       /\ received' = Received(world, r)
       /\ IF r.raised
          THEN /\ last_update_success' = FALSE
               /\ UNCHANGED <<loaded, data, platform_vars>>
          ELSE /\ last_update_success' = TRUE
               /\ loaded' = TRUE
               /\ data' = << r.snapshot >>
               /\ LET global_sensors == IF show_totals THEN GlobalSensors ELSE {}
                  IN Listeners(r.snapshot, UniqueIds(global_sensors), {}, global_sensors)
    /\ UNCHANGED <<api_vars, cfg_vars, limit_vars, aux_vars>>

\* One scheduled refresh of the coordinator: _async_update_data, then the
\* snapshot is installed and the listeners run.  After UpdateFailed the old
\* snapshot stays; the listeners still run once when the previous refresh
\* had succeeded.
Refresh(world) ==
    /\ loaded
    /\ cycle < MaxCycles
    /\ cycle' = cycle + 1
    /\ \E r \in { AsyncUpdateData(world, show_holdings, show_watchlist) } :
       /\ calls' = r.calls
       /\ received' = Received(world, r)
       /\ IF r.raised
          THEN /\ last_update_success' = FALSE
               /\ UNCHANGED data
               /\ IF last_update_success
                  THEN Listeners(data[1], known_ids, number_known_ids, entities)
                  ELSE UNCHANGED platform_vars
          ELSE /\ last_update_success' = TRUE
               /\ data' = << r.snapshot >>
               /\ Listeners(r.snapshot, known_ids, number_known_ids, entities)
    /\ UNCHANGED <<api_vars, cfg_vars, loaded, limit_vars, aux_vars>>

\* The state after construction, but for the options of the config entry.
Constructed ==
    /\ auth_token = None /\ api_pc = "idle" /\ api_url = None
    /\ gets = 0 /\ auths = 0 /\ reauths = 0
    /\ first_status = None /\ retry_status = None
    /\ loaded = FALSE /\ data = NoData /\ last_update_success = FALSE /\ calls = << >>
    /\ cycle = 0 /\ received = NotFetched
    /\ known_ids = {} /\ number_known_ids = {} /\ entities = {} /\ new_entities = << >>
    /\ limit_registered = FALSE /\ limit_state = NoState /\ limit_status = << >>
    /\ limit_number = GhostfolioLimitNumber(LimitUniqueId("low", AccountId(1), "AAPL"),
                                            "AAPL", "low", AccountId(1))
    /\ limit_native = NoNum /\ limit_effects = NoEffects /\ sensor_registry = {}
    /\ resolved = << >> /\ metric = << >>
    /\ heap = EmptyMap /\ installed = << >> /\ build = IdleBuild

\* A config entry without option keys: every show_* option defaults to True.
Init ==
    /\ show_totals = TRUE /\ show_accounts = TRUE
    /\ show_holdings = TRUE /\ show_watchlist = TRUE
    /\ Constructed

Next ==
    \/ \E w \in Worlds : async_setup_entry(w)
    \/ \E w \in Worlds : Refresh(w)

Spec == Init /\ [][Next]_vars

NextApi ==
    /\ UNCHANGED <<cfg_vars, coord_vars, platform_vars, limit_vars, aux_vars>>
    /\ \/ \E url \in Endpoints : StartRequest(url)
       \/ \E o \in AuthOutcomes : FirstAuthenticate(o)
       \/ \E s \in GetOutcomes : FirstGet(s)
       \/ \E o \in AuthOutcomes : Reauthenticate(o)
       \/ \E s \in GetOutcomes : RetryGet(s)

SpecApi == Init /\ [][NextApi]_vars

\* The integration against a service whose watchlist answers vary.
NextWatch ==
    \/ \E world \in WatchWorlds : async_setup_entry(world)
    \/ \E world \in WatchWorlds : Refresh(world)

SpecWatch == Init /\ [][NextWatch]_vars

\* number.py's reconciler applied to the installed snapshot, as the host runs
\* it when the number platform is set up for the entry.
NumberReconcile ==
    /\ loaded /\ data # NoData
    /\ \E n \in { _update_numbers(data[1], number_known_ids) } :
         /\ ~n.raised
         /\ n.new_entities # << >>
         /\ number_known_ids' = n.known_ids
         /\ new_entities' = n.new_entities
         /\ entities' = entities \cup Range(n.new_entities)
    /\ UNCHANGED <<api_vars, cfg_vars, coord_vars, known_ids, limit_vars, aux_vars>>

\* The reconcilers against holdings of every quantity.
NextEntities ==
    \/ \E world \in HoldWorlds : async_setup_entry(world)
    \/ \E world \in HoldWorlds : Refresh(world)
    \/ NumberReconcile

SpecEntities == Init /\ [][NextEntities]_vars

\* The current values a sensor compares against its limits.
CurrentValues == {-5, 0, 45, 50, 55}

\* The host's registry gains or loses the entry of the limit number.
RegistryChange(found) ==
    /\ limit_registered' = found
    /\ UNCHANGED <<limit_state, limit_status, number_vars>>

\* str() of a number's native value as the host writes it into the state
\* machine: "unknown" for None.
NumberState(native_value) ==
    IF native_value = NoNum THEN "unknown" ELSE FloatStr(native_value[1])

\* _async_trigger_sensor_update(): the update_entity service call for the
\* paired sensor when the registry finds it, else nothing.
_async_trigger_sensor_update(n, registry) ==
    IF sensor_unique_id(n) \in registry
    THEN << [op |-> "update_entity", unique_id |-> sensor_unique_id(n)] >>
    ELSE << >>

\* A set-value handler that stores every value as it comes.
async_set_native_value_unconverted(value) ==
    /\ limit_registered
    /\ limit_native' = Num(value)
    /\ limit_state' = FloatStr(value)
    /\ limit_effects' =
         [handler |-> "async_set_native_value",
          log |-> << [op |-> "write_state", unique_id |-> limit_number.unique_id] >>
                  \o _async_trigger_sensor_update(limit_number, sensor_registry)]
    /\ UNCHANGED <<limit_registered, limit_status, limit_number, sensor_registry>>

\* GhostfolioLimitNumber.async_set_native_value: a value of 0 is stored as
\* None; async_write_ha_state; then the trigger of the paired sensor.
async_set_native_value(value) ==
    /\ limit_registered
    /\ limit_native' = IF value = 0 THEN NoNum ELSE Num(value)
    /\ limit_state' = NumberState(IF value = 0 THEN NoNum ELSE Num(value))
    /\ limit_effects' =
         [handler |-> "async_set_native_value",
          log |-> << [op |-> "write_state", unique_id |-> limit_number.unique_id] >>
                  \o _async_trigger_sensor_update(limit_number, sensor_registry)]
    /\ UNCHANGED <<limit_registered, limit_status, limit_number, sensor_registry>>

\* GhostfolioLimitNumber.async_added_to_hass: the restored native value is
\* taken as stored; last is NoNum when nothing (or None) was stored.  The
\* trigger is scheduled 0.5 s later, the host writes the state when the
\* handler has returned: either may come first.
async_added_to_hass(last, trigger_first) ==
    /\ limit_registered
    /\ limit_native' = last
    /\ limit_state' = NumberState(last)
    /\ limit_effects' =
         [handler |-> "async_added_to_hass",
          log |-> LET write == << [op |-> "write_state",
                                   unique_id |-> limit_number.unique_id] >>
                      trigger == IF last = NoNum THEN << >>
                                 ELSE _async_trigger_sensor_update(limit_number,
                                                                   sensor_registry)
                  IN IF trigger_first THEN trigger \o write ELSE write \o trigger]
    /\ UNCHANGED <<limit_registered, limit_status, limit_number, sensor_registry>>

\* The host's state machine: no state object, "unavailable", or a state
\* string that is no number.
HostState(state) ==
    /\ limit_state' = state
    /\ UNCHANGED <<limit_registered, limit_status, number_vars>>

\* extra_state_attributes evaluating one limit against the current value.
ReadLimit(limit_type, current_value) ==
    /\ limit_status' =
         << [limit_type |-> limit_type, current_value |-> current_value,
             entity_id |-> limit_registered, state_obj |-> limit_state,
             result |-> get_limit_status(limit_type, current_value,
                                         limit_registered, limit_state)] >>
    /\ UNCHANGED <<limit_registered, limit_state, number_vars>>

NextLimit ==
    /\ UNCHANGED <<api_vars, cfg_vars, coord_vars, platform_vars, aux_vars>>
    /\ \/ \E found \in BOOLEAN : RegistryChange(found)
       \/ \E value \in LimitValues : async_set_native_value(value)
       \/ \E last \in {NoNum} \cup { Num(v) : v \in LimitValues }, trigger_first \in BOOLEAN :
             async_added_to_hass(last, trigger_first)
       \/ \E state \in {NoState, "unavailable", "abc", ""} : HostState(state)
       \/ \E limit_type \in {"low", "high"}, current_value \in CurrentValues :
             ReadLimit(limit_type, current_value)

SpecLimit == Init /\ [][NextLimit]_vars

\* The limit numbers and the sensors of two accounts and the watchlist.
NumberScopes == {AccountId(1), AccountId(2), "watchlist_scope"}
NumberSymbols == {"AAPL", "BRK.B"}

LimitNumberOf(scope, symbol, limit_type) ==
    IF scope = "watchlist_scope"
    THEN GhostfolioLimitNumber(WatchlistLimitUniqueId(limit_type, symbol), symbol, limit_type,
                               scope)
    ELSE GhostfolioLimitNumber(LimitUniqueId(limit_type, scope, symbol), symbol, limit_type,
                               scope)

SensorKeyOf(scope, symbol) ==
    IF scope = "watchlist_scope" THEN WatchlistUniqueId(symbol)
    ELSE HoldingUniqueId(scope, symbol)

SensorKeys == { SensorKeyOf(scope, symbol) : scope \in NumberScopes, symbol \in NumberSymbols }

\* async_add_entities for the limit number n: the entity is registered and
\* its native value is None until async_added_to_hass restores one.
AddNumber(n) ==
    /\ limit_number' = n
    /\ limit_registered' = TRUE
    /\ limit_native' = NoNum
    /\ limit_state' = NoState
    /\ limit_effects' = NoEffects
    /\ UNCHANGED <<limit_status, sensor_registry>>

\* The sensors the host's entity registry knows.
SensorRegistryChange(keys) ==
    /\ sensor_registry' = keys
    /\ UNCHANGED <<limit_registered, limit_state, limit_status,
                   limit_number, limit_native, limit_effects>>

\* The handlers of a limit number against every registry of up to two sensors.
NextNumber ==
    /\ UNCHANGED <<api_vars, cfg_vars, coord_vars, platform_vars, aux_vars>>
    /\ \/ \E scope \in NumberScopes, symbol \in NumberSymbols, limit_type \in {"low", "high"} :
             AddNumber(LimitNumberOf(scope, symbol, limit_type))
       \/ \E keys \in { ks \in SUBSET SensorKeys : Cardinality(ks) <= 2 } :
             SensorRegistryChange(keys)
       \/ \E value \in LimitValues : async_set_native_value(value)
       \/ \E last \in {NoNum} \cup { Num(v) : v \in LimitValues }, trigger_first \in BOOLEAN :
             async_added_to_hass(last, trigger_first)

SpecNumber == Init /\ [][NextNumber]_vars

\* The price histories of the model: up to MaxHistory entries, oldest first.
MaxHistory == 7

HistoryDate(i) == "d" \o ToString(i)

\* The prices an entry may carry; NoNum is an entry without a price.
PriceChoices == {Num(0), Num(10), Num(12)}

PricedEntry(i, price) == [HistoryEntry(HistoryDate(i), 0) EXCEPT !.marketPrice = price]

HistoriesOver(choices, longest) ==
    UNION { { [i \in 1..n |-> PricedEntry(i, prices[i])] : prices \in [1..n -> choices] }
            : n \in 0..longest }

\* Every history of up to MaxHistory priced entries, and the short ones in
\* which entries may lack a price.
Histories ==
    HistoriesOver(PriceChoices, MaxHistory)
    \cup HistoriesOver(PriceChoices \cup {NoNum}, MaxHistory - 4)

\* A watchlist item as returned, and one that carries price fields already.
ResolverItems ==
    { RawItem("MSFT", "YAHOO", None),
      [RawItem("MSFT", "YAHOO", None) EXCEPT
          !.marketPrice = Num(5), !.marketDate = "d0", !.marketChange = Num(1),
          !.marketChangePercentage = Num([num |-> 1, den |-> 1])] }

\* The inner try block run for one item whose get_market_data call returned
\* the history.
Resolve(item, history) ==
    /\ resolved = << >>
    /\ resolved' = << [item |-> item, history |-> history,
                       result |-> EnrichItem(item, MarketOk(history, Profile("USD", "EQUITY")))] >>
    /\ UNCHANGED <<api_vars, cfg_vars, coord_vars, platform_vars, limit_vars, metric, cycle_vars>>

NextResolver ==
    /\ resolved = << >>
    /\ \E item \in ResolverItems, history \in Histories : Resolve(item, history)

SpecResolver == Init /\ [][NextResolver]_vars

\* The amounts a performance or a holding may carry.
Amounts == {NoNum, Num(0), Num(150), Num(800), Num(1000), Num(1200)}
Investments == {NoNum, Num(-1000), Num(0), Num(100), Num(300), Num(1000)}

PerfOf(current_value, total_investment) ==
    [performance |-> [currentValueInBaseCurrency |-> current_value,
                      totalInvestment |-> total_investment]]

\* A holding of one share with the investment its dict carries.
InvestedHolding(investment, value_in_base) ==
    [investment |-> investment] @@
    [Holding("AAPL", 1) EXCEPT !.valueInBaseCurrency = value_in_base]

\* One account whose calls return the given bodies.
MetricWorld(global, perf, holding) ==
    World(<< NormalAccount(1) >>, global,
          [i \in 1..MaxAccounts |-> IF i = 1 THEN perf ELSE Ok(PerfBody)],
          HoldOf(<< << holding >> >>), EmptyWatchlist, NoMarkets)

\* The snapshot a successful cycle installs for the world.
SnapshotOf(world) == << AsyncUpdateData(world, TRUE, TRUE).snapshot >>

\* GhostfolioSimpleGainPercentSensor.native_value read after a cycle that
\* received the global performance.
ReadSimpleGainPercent(current_value, total_investment) ==
    /\ metric' =
         << [sensor |-> "simple_gain_percent",
             value |-> current_value, cost |-> total_investment,
             result |-> SimpleGainPercentNativeValue(
                          SnapshotOf(MetricWorld(Ok(PerfOf(current_value, total_investment)),
                                                 Ok(PerfBody),
                                                 InvestedHolding(Num(100), Num(150)))))] >>
    /\ UNCHANGED <<api_vars, cfg_vars, coord_vars, platform_vars, limit_vars, resolved, cycle_vars>>

\* GhostfolioAccountSimpleGainSensor.native_value read after a cycle whose
\* per-account performance call returned perf (or failed).
ReadAccountSimpleGain(perf) ==
    /\ metric' =
         << [sensor |-> "account_simple_gain",
             value |-> IF perf.ok THEN perf.body.performance.currentValueInBaseCurrency
                       ELSE NoNum,
             cost |-> IF perf.ok THEN perf.body.performance.totalInvestment ELSE NoNum,
             result |-> AccountSimpleGainNativeValue(
                          SnapshotOf(MetricWorld(Ok(PerfBody), perf,
                                                 InvestedHolding(Num(100), Num(150)))),
                          AccountId(1))] >>
    /\ UNCHANGED <<api_vars, cfg_vars, coord_vars, platform_vars, limit_vars, resolved, cycle_vars>>

\* GhostfolioHoldingSensor.extra_state_attributes read after a cycle that
\* received the holding.
ReadHoldingGain(investment, value_in_base) ==
    /\ metric' =
         << [sensor |-> "holding",
             value |-> value_in_base, cost |-> investment,
             result |-> HoldingGainAttributes(
                          SnapshotOf(MetricWorld(Ok(PerfBody), Ok(PerfBody),
                                                 InvestedHolding(investment, value_in_base))),
                          GhostfolioHoldingSensor(AccountId(1),
                                                  InvestedHolding(investment, value_in_base)))] >>
    /\ UNCHANGED <<api_vars, cfg_vars, coord_vars, platform_vars, limit_vars, resolved, cycle_vars>>

NextMetrics ==
    \/ \E current_value \in Amounts, total_investment \in Investments :
          ReadSimpleGainPercent(current_value, total_investment)
    \/ \E perf \in {Failed} \cup { Ok(PerfOf(v, c)) : v \in Amounts, c \in Investments } :
          ReadAccountSimpleGain(perf)
    \/ \E investment \in Investments, value_in_base \in Amounts :
          ReadHoldingGain(investment, value_in_base)

SpecMetrics == Init /\ [][NextMetrics]_vars

(***************************************************************************)
(* __init__.py: the steps of one refresh cycle                             *)
(***************************************************************************)
\* _async_update_data from its entry to the await of get_watchlist (or to its
\* return statement when the watchlist is off): steps 1 to 3, which build
\* new dicts from the responses.
BeginCycle(world) ==
    /\ build.pc = "idle"
    /\ cycle < MaxCycles
    /\ cycle' = cycle + 1
    /\ \E m \in { MandatoryFetch(world) } :
       \E loop \in { IF m.raised THEN [raised |-> TRUE, calls |-> m.calls]
                     ELSE AccountLoop(m.accounts_data.accounts, world, show_holdings, 1,
                                      [raised |-> FALSE, calls |-> m.calls,
                                       account_performances |-> EmptyMap,
                                       holdings_by_account |-> EmptyMap]) } :
         IF loop.raised
         THEN /\ last_update_success' = FALSE
              /\ calls' = loop.calls
              /\ UNCHANGED build
         ELSE /\ build' = [IdleBuild EXCEPT
                             !.pc = IF show_watchlist THEN "get_watchlist" ELSE "return",
                             !.world = world, !.calls = loop.calls,
                             !.accounts = m.accounts_data,
                             !.global_performance = m.global_performance,
                             !.account_performances = loop.account_performances,
                             !.account_holdings = loop.holdings_by_account]
              /\ UNCHANGED <<last_update_success, calls>>
    /\ UNCHANGED <<api_vars, cfg_vars, loaded, data, received, platform_vars, limit_vars,
                   resolved, metric, heap, installed>>

\* get_watchlist returns or raises: raw_items are the decoded elements.
ReceiveWatchlist ==
    /\ build.pc = "get_watchlist"
    /\ \E d \in { DecodeItems(heap, RawItems(build.world.watchlist), 1, << >>) } :
         IF build.world.watchlist.ok
         THEN /\ heap' = d.heap
              /\ build' = [build EXCEPT
                             !.pc = "items", !.raw_items = d.ids, !.next = 1,
                             !.calls = Append(@, Call("watchlist", None, TRUE))]
         ELSE /\ build' = [build EXCEPT
                             !.pc = "return",
                             !.calls = Append(@, Call("watchlist", None, FALSE))]
              /\ UNCHANGED heap
    /\ UNCHANGED <<api_vars, cfg_vars, coord_vars, platform_vars, limit_vars,
                   resolved, metric, installed>>

\* One pass of "for item in raw_items": the get_market_data call, the writes
\* into the item dict, and the append.  An element that is no dict ends the
\* loop through the outer except clause.
EnrichNext ==
    /\ build.pc = "items"
    /\ IF build.next > Len(build.raw_items)
       THEN build' = [build EXCEPT !.pc = "return"] /\ UNCHANGED heap
       ELSE LET id == build.raw_items[build.next]
                item == heap[id]
                market == build.world.markets[build.next]
            IN IF ~item.is_dict
               THEN build' = [build EXCEPT !.pc = "return"] /\ UNCHANGED heap
               ELSE IF item.symbol # None /\ item.dataSource # None
                    THEN /\ heap' = [heap EXCEPT ![id] = EnrichItem(item, market)]
                         /\ build' = [build EXCEPT
                                        !.next = @ + 1,
                                        !.watchlist_items = Append(@, id),
                                        !.calls = Append(@, Call("market-data", item.symbol,
                                                                 market.ok))]
                    ELSE /\ build' = [build EXCEPT !.next = @ + 1,
                                                   !.watchlist_items = Append(@, id)]
                         /\ UNCHANGED heap
    /\ UNCHANGED <<api_vars, cfg_vars, coord_vars, platform_vars, limit_vars,
                   resolved, metric, installed>>

\* The return statement, and the coordinator assigning the returned dict to
\* self.data; the objects nothing refers to any more are gone.
InstallSnapshot ==
    /\ build.pc = "return"
    /\ data' = << [accounts |-> build.accounts,
                   global_performance |-> build.global_performance,
                   account_performances |-> build.account_performances,
                   account_holdings |-> build.account_holdings,
                   watchlist |-> Deref(heap, build.watchlist_items)] >>
    /\ installed' = build.watchlist_items
    /\ heap' = [id \in Range(build.watchlist_items) |-> heap[id]]
    /\ calls' = build.calls
    /\ last_update_success' = TRUE
    /\ build' = IdleBuild
    /\ UNCHANGED <<api_vars, cfg_vars, loaded, cycle, received, platform_vars, limit_vars,
                   resolved, metric>>

NextCycle ==
    \/ \E world \in WatchWorlds \cup {AccountsFail, GlobalFail} : BeginCycle(world)
    \/ ReceiveWatchlist
    \/ EnrichNext
    \/ InstallSnapshot

SpecCycle == Init /\ [][NextCycle]_vars

\* A config entry whose holdings and watchlist options were chosen in the
\* config flow.
InitOptions ==
    /\ show_totals = TRUE /\ show_accounts = TRUE
    /\ show_holdings \in BOOLEAN /\ show_watchlist \in BOOLEAN
    /\ Constructed

\* The behaviours the options are run against: two accounts with holdings and
\* a watchlist item, one account whose per-account calls may fail and that
\* may lack a name, and the failures of the mandatory calls.
OptionWorlds ==
    { HoldWorld(<< NormalAccount(1), NormalAccount(2) >>, HoldOf(<< h1, h2 >>), wl) :
        h1 \in QuantityLists(1), h2 \in {<< >>, << Holding("AAPL", 1) >>},
        wl \in {EmptyWatchlist, OneItemWatchlist} }
    \cup { World(<< account >>, Ok(PerfBody),
                 [i \in 1..MaxAccounts |-> IF i = 1 THEN perf ELSE Ok(PerfBody)],
                 [i \in 1..MaxAccounts |-> IF i = 1 THEN hold ELSE DefaultHold],
                 OneItemWatchlist,
                 [i \in 1..MaxWatch |-> IF i = 1 THEN GoodMarket ELSE MarketFailed]) :
             account \in {NormalAccount(1), [NormalAccount(1) EXCEPT !.name = Missing]},
             perf \in {Ok(PerfBody), Failed},
             hold \in { [ok |-> FALSE, holdings |-> << >>],
                        [ok |-> TRUE, holdings |-> << Holding("AAPL", 1) >>] } }
    \cup {AccountsFail, GlobalFail}

NextOptions ==
    \/ \E world \in OptionWorlds : async_setup_entry(world)
    \/ \E world \in OptionWorlds : Refresh(world)

SpecOptions == InitOptions /\ [][NextOptions]_vars

\* The watchlist-source behaviours: no accounts, and a watchlist of up to
\* MaxWatch items whose symbol and data source vary; the market data of an
\* item carries a price that tells the data sources apart.
DataSources == {"YAHOO", "COINGECKO"}

SourcePrice(data_source) == IF data_source = "YAHOO" THEN 12 ELSE 15

SourceItems == { RawItem(symbol, ds, "USD") : symbol \in {"MSFT", "AAPL"}, ds \in DataSources }

SourceWorld(items) ==
    World(<< >>, Ok(PerfBody), NoPerf, NoHold, WatchlistOk("list", items),
          [i \in 1..MaxWatch |->
              IF i <= Len(items)
              THEN MarketOk(<< HistoryEntry("d1", SourcePrice(items[i].dataSource)) >>,
                            Profile("USD", "EQUITY"))
              ELSE MarketFailed])

SourceWorlds == { SourceWorld(items) : items \in UNION { [1..n -> SourceItems] : n \in 0..MaxWatch } }

NextSources ==
    \/ \E world \in SourceWorlds : async_setup_entry(world)
    \/ \E world \in SourceWorlds : Refresh(world)

SpecSources == Init /\ [][NextSources]_vars

(***************************************************************************)
(* Properties                                                              *)
(***************************************************************************)
\* The latest cycle's account-list call or global-performance call failed.
MandatoryFailed(cs) == Len(cs) >= 1 /\ (~cs[1].ok \/ (Len(cs) >= 2 /\ ~cs[2].ok))

\* The latest cycle's two mandatory calls both returned.
MandatoryOk(cs) == Len(cs) >= 2 /\ cs[1].ok /\ cs[2].ok

\* C1: a cycle whose account-list or global-performance call fails ends with
\* UpdateFailed and installs nothing: the snapshot readers see is the one
\* installed before, and the snapshot changes only in a cycle that succeeds.
C1_MandatoryFailureKeepsSnapshot ==
    [][ /\ (cycle' # cycle /\ MandatoryFailed(calls'))
            => (~last_update_success' /\ data' = data)
        /\ data' # data => last_update_success' ]_vars

\* C1 witness: a cycle failed on a mandatory call while a snapshot was installed.
C1_Witness ==
    loaded /\ data # NoData /\ ~last_update_success /\ MandatoryFailed(calls)

\* C2 (as claimed): a cycle whose two mandatory calls succeed returns a
\* snapshot, whatever the account records and the other calls do.
C2_OnlyMandatoryFailuresAreFatal ==
    (cycle > 0 /\ MandatoryOk(calls)) => last_update_success

\* The per-account calls of the latest cycle that failed.
FailedAccountCalls ==
    { k \in DOMAIN calls : /\ calls[k].endpoint \in {"performance", "holdings"}
                           /\ calls[k].arg # None /\ ~calls[k].ok }

OtherFetch(endpoint) == IF endpoint = "performance" THEN "holdings" ELSE "performance"

Attempted(endpoint, account_id) ==
    \E j \in DOMAIN calls : calls[j].endpoint = endpoint /\ calls[j].arg = account_id

Succeeded(endpoint, account_id) ==
    \E j \in DOMAIN calls :
        calls[j].endpoint = endpoint /\ calls[j].arg = account_id /\ calls[j].ok

MapOf(snapshot, endpoint) ==
    IF endpoint = "performance" THEN snapshot.account_performances
    ELSE snapshot.account_holdings

\* C3 (as claimed): when a per-account fetch fails, the cycle still returns a
\* snapshot, the account is absent from that map, its other fetch is still
\* attempted, and every account whose two fetches succeeded is in both maps.
C3_PerAccountIsolation ==
    \A k \in FailedAccountCalls :
        /\ last_update_success
        /\ calls[k].arg \notin DOMAIN MapOf(data[1], calls[k].endpoint)
        /\ Attempted(OtherFetch(calls[k].endpoint), calls[k].arg)
        /\ \A i \in DOMAIN data[1].accounts.accounts :
             LET b == data[1].accounts.accounts[i].id IN
             (Succeeded("performance", b) /\ Succeeded("holdings", b))
                 => (b \in DOMAIN data[1].account_performances
                     /\ b \in DOMAIN data[1].account_holdings)

\* C4: an account with isExcluded = true has no entry in account_performances,
\* none in account_holdings, and no entity among those the latest
\* reconciliation emitted.
C4_ExcludedAccountsAbsent ==
    data # NoData =>
        \A i \in DOMAIN data[1].accounts.accounts :
            LET account == data[1].accounts.accounts[i] IN
            account.isExcluded =>
                /\ account.id \notin DOMAIN data[1].account_performances
                /\ account.id \notin DOMAIN data[1].account_holdings
                /\ \A k \in DOMAIN new_entities : new_entities[k].account_id # account.id

\* C4 witness: the snapshot holds an excluded account beside accounts whose
\* entities were just emitted.
C4_Witness ==
    /\ data # NoData
    /\ \E i \in DOMAIN data[1].accounts.accounts : data[1].accounts.accounts[i].isExcluded
    /\ new_entities # << >>

\* The items the latest cycle's watchlist response carried.
ReceivedItems == RawItems(received.watchlist)

\* Position of the first element that is no dict, 0 when there is none.
FirstNonDict ==
    IF \E k \in DOMAIN ReceivedItems : ~ReceivedItems[k].is_dict
    THEN CHOOSE k \in DOMAIN ReceivedItems :
            /\ ~ReceivedItems[k].is_dict
            /\ \A j \in 1..(k - 1) : ReceivedItems[j].is_dict
    ELSE 0

\* The latest cycle failed while fetching or while processing the watchlist.
WatchlistFailure ==
    received.fetched /\ (~received.watchlist.ok \/ FirstNonDict > 0)

\* C5 (as claimed): a failure while fetching or processing the watchlist
\* leaves the cycle successful and the snapshot's watchlist empty.
C5_WatchlistFailureGivesEmptyList ==
    WatchlistFailure => (last_update_success /\ data[1].watchlist = << >>)

\* C5 (amended): the cycle succeeds; a failed fetch gives the empty list; a
\* failure while processing the element at position k gives the k-1 items
\* before it, in order.
C5_WatchlistFailureKeepsProcessedItems ==
    WatchlistFailure =>
        /\ last_update_success
        /\ ~received.watchlist.ok => data[1].watchlist = << >>
        /\ (received.watchlist.ok /\ FirstNonDict > 0) =>
              /\ Len(data[1].watchlist) = FirstNonDict - 1
              /\ \A j \in 1..(FirstNonDict - 1) :
                    data[1].watchlist[j].symbol = ReceivedItems[j].symbol

\* C5 witness: processing failed at the second element and the first item is
\* in the snapshot.
C5_Witness ==
    /\ received.fetched /\ received.watchlist.ok /\ FirstNonDict = 2
    /\ last_update_success /\ Len(data[1].watchlist) = 1

\* The positions of the latest watchlist response whose items were processed.
ProcessedPositions ==
    IF ~received.fetched \/ ~received.watchlist.ok THEN {}
    ELSE IF FirstNonDict > 0 THEN 1..(FirstNonDict - 1)
    ELSE DOMAIN ReceivedItems

\* A market-data call was made for the item.
Looked(item) == item.symbol # None /\ item.dataSource # None

\* The enrichment of the item raises: the call fails, a price of the history
\* does not parse, or assetProfile is null when a field is taken from it.
EnrichmentFails(item, market) ==
    \/ ~market.ok
    \/ market.marketData # << >> /\ SmartLookback(item, market.marketData).raised
    \/ (item.currency = None \/ item.assetClass = None) /\ ~market.assetProfile.is_dict

\* C6 (as claimed): an item whose enrichment fails is in the snapshot with its
\* original fields unchanged, and the items whose enrichment does not fail
\* carry the price of their history.
C6_FailedEnrichmentLeavesItemUnchanged ==
    \A j \in ProcessedPositions :
        LET item == ReceivedItems[j]
            market == received.markets[j]
        IN Looked(item) =>
             IF EnrichmentFails(item, market)
             THEN data[1].watchlist[j] = item
             ELSE market.marketData # << >> => data[1].watchlist[j].marketPrice # NoNum

\* The request is over.
RequestOver == api_pc \in {"returned", "GhostfolioAPIError", "GhostfolioAuthError"}

\* C7 (as claimed): a 401 leads to exactly one re-authentication and exactly
\* one retry; a retry that is no 200 fails the request; at most two GETs.
C7_UnauthorizedRetriesOnce ==
    /\ gets <= 2
    /\ (RequestOver /\ first_status = HTTP_UNAUTHORIZED) =>
          /\ reauths = 1
          /\ gets = 2
          /\ retry_status # HTTP_OK => api_pc = "GhostfolioAPIError"

\* C7 (amended): a 401 leads to exactly one re-authentication; when that does
\* not raise, to exactly one retry, and when it raises the request fails
\* without a retry; a retry that is no 200 fails the request; at most two GETs.
C7_UnauthorizedReauthenticatesOnce ==
    /\ [](/\ gets <= 2
          /\ reauths <= 1
          /\ (RequestOver /\ first_status = HTTP_UNAUTHORIZED) =>
                /\ reauths = 1
                /\ \/ gets = 2 /\ retry_status # None
                   \/ gets = 1 /\ retry_status = None /\ api_pc # "returned"
                /\ retry_status # HTTP_OK => api_pc # "returned")
    /\ [][ /\ api_pc = "reauthenticate" =>
                (api_pc' \in {"retry", "GhostfolioAPIError", "GhostfolioAuthError"}
                 /\ gets' = 1 /\ reauths' = 1)
           /\ api_pc = "retry" =>
                (gets' = 2 /\ api_url' = api_url
                 /\ api_pc' = IF retry_status' = HTTP_OK THEN "returned"
                              ELSE "GhostfolioAPIError") ]_vars

\* C7 witness: the retry after the re-authentication was answered 401 again
\* and the request failed after two GETs.
C7_Witness ==
    /\ api_pc = "GhostfolioAPIError" /\ first_status = HTTP_UNAUTHORIZED
    /\ retry_status = HTTP_UNAUTHORIZED /\ gets = 2 /\ reauths = 1

\* The sensor keys a snapshot implies: five per non-excluded account, one per
\* holding with quantity > 0 of such an account, one per watchlist item.
ImpliedSensorKeys(snapshot) ==
    LET accts == { snapshot.accounts.accounts[i] : i \in DOMAIN snapshot.accounts.accounts }
        live == { a \in accts : ~a.isExcluded /\ a.id # Missing }
    IN UNION { { AccountSensor(AccountSensorKeys[k], a.id).unique_id
                   : k \in DOMAIN AccountSensorKeys } : a \in live }
       \cup UNION { { HoldingUniqueId(a.id, h.symbol)
                        : h \in { h \in Range(HoldingsOf(snapshot, a.id)) : h.quantity > 0 } }
                    : a \in live }
       \cup { WatchlistUniqueId(snapshot.watchlist[k].symbol) : k \in DOMAIN snapshot.watchlist }

\* The known set a reconciliation starts from (set-up starts from the global sensors).
KnownBefore == IF loaded THEN known_ids ELSE UniqueIds(GlobalSensors)

\* The step ran the listeners.
ListenersRan ==
    cycle' # cycle /\ loaded' /\ (last_update_success' \/ (loaded /\ last_update_success))

\* C8 (as claimed): a reconciliation emits exactly the keys the snapshot
\* implies that were not yet known, and inserts exactly those.
C8_ReconcileEmitsExactlyNewKeys ==
    [][ ListenersRan =>
          /\ UniqueIds(Range(new_entities')) = ImpliedSensorKeys(data'[1]) \ KnownBefore
          /\ known_ids' = KnownBefore \cup UniqueIds(Range(new_entities')) ]_vars

\* C9: the known entity sets only grow, in every step.
C9_KnownSetOnlyGrows ==
    [][ known_ids \subseteq known_ids' /\ number_known_ids \subseteq number_known_ids' ]_vars

\* C9 witness: a key stays known although the snapshot no longer implies it.
C9_Witness ==
    /\ data # NoData
    /\ \E id \in known_ids : id \notin ImpliedSensorKeys(data[1]) \cup UniqueIds(GlobalSensors)

\* The holding an entity was created for is in the snapshot.
HoldingPresent(e) ==
    /\ data # NoData
    /\ e.account_id \in DOMAIN data[1].account_holdings
    /\ \E k \in DOMAIN data[1].account_holdings[e.account_id] :
          data[1].account_holdings[e.account_id][k].symbol = e.symbol

HoldingEntities == { e \in entities : e.kind = "holding" }

\* C10: an exposed holding entity is never retracted; while its holding is
\* absent from the snapshot its value and attributes read None, and when the
\* holding is there they are read from it.
C10_GoneHoldingReadsNone ==
    /\ [](\A e \in HoldingEntities :
            IF HoldingPresent(e)
            THEN HoldingAttributes(data, e) # << >>
            ELSE HoldingNativeValue(data, e) = NoNum /\ HoldingAttributes(data, e) = << >>)
    /\ [][ entities \subseteq entities' ]_vars

\* C10 witness: an exposed holding entity whose holding is gone while another
\* account still holds the same symbol.
C10_Witness ==
    \E e \in HoldingEntities :
        /\ ~HoldingPresent(e)
        /\ \E a \in DOMAIN data[1].account_holdings :
              \E k \in DOMAIN data[1].account_holdings[a] :
                  data[1].account_holdings[a][k].symbol = e.symbol

PositiveQuantity(h) == h.quantity > 0

\* The snapshot with the holdings of quantity <= 0 taken out.
WithoutInactive(snap) ==
    IF snap = NoData THEN NoData
    ELSE << [snap[1] EXCEPT !.account_holdings =
                [a \in DOMAIN @ |-> SelectSeq(@[a], PositiveQuantity)]] >>

\* C11: every holding or limit entity a reconciliation emits belongs to a
\* holding with quantity > 0; the portfolio and account health checks give
\* the same answer with and without the holdings of quantity <= 0; and the
\* snapshot's account_holdings are the lists the service returned, unfiltered.
C11_InactiveHoldingsIgnored ==
    data # NoData =>
        /\ \A k \in DOMAIN new_entities :
             LET e == new_entities[k] IN
             (e.kind \in {"holding", "limit"} /\ e.account_id # "watchlist_scope") =>
                 \E h \in Range(HoldingsOf(data[1], e.account_id)) :
                     h.symbol = e.symbol /\ h.quantity > 0
        /\ is_portfolio_healthy(data) = is_portfolio_healthy(WithoutInactive(data))
        /\ \A a \in DOMAIN data[1].account_holdings :
             is_account_healthy(data, a) = is_account_healthy(WithoutInactive(data), a)
        /\ (last_update_success /\ received.fetched) =>
             data[1].account_holdings = received.holdings

\* C11 witness: the snapshot holds a holding of quantity <= 0 that has no
\* entity, beside a holding that has one.
C11_Witness ==
    /\ data # NoData
    /\ \E a \in DOMAIN data[1].account_holdings :
         \E k \in DOMAIN data[1].account_holdings[a] :
            LET h == data[1].account_holdings[a][k] IN
            /\ h.quantity <= 0
            /\ ~\E e \in entities : e.account_id = a /\ e.symbol = h.symbol
    /\ \E e \in entities : e.kind = "holding"
    /\ \E e \in entities : e.kind = "limit"

\* C12 (as claimed): every exposed holding entity and every exposed watchlist
\* entity has its low and its high limit number exposed as well.
C12_LimitCompanionsExposed ==
    \A e \in entities : \A t \in {"low", "high"} :
        /\ e.kind = "holding" =>
             \E n \in entities :
                n.kind = "limit" /\ n.unique_id = LimitUniqueId(t, e.account_id, e.symbol)
        /\ e.kind = "watchlist" =>
             \E n \in entities :
                n.kind = "limit" /\ n.unique_id = WatchlistLimitUniqueId(t, e.symbol)

\* The limit numbers among the exposed entities that belong to sensor e.
LimitsOf(e) ==
    { n \in entities :
        /\ n.kind = "limit" /\ n.symbol = e.symbol
        /\ n.account_id = (IF e.kind = "watchlist" THEN "watchlist_scope" ELSE e.account_id) }

\* C13: the id a sensor rebuilds for its limit number is the id the number was
\* created with, the id a limit number rebuilds for its sensor is the id the
\* sensor was created with, and no two exposed entities of the same kind,
\* account, symbol and limit type differ in their id.
C13_KeySchemeConsistent ==
    /\ \A e \in entities : \A n \in LimitsOf(e) :
         /\ e.kind = "holding" =>
              (num_unique_id(n.limit_type, e) = n.unique_id /\ sensor_unique_id(n) = e.unique_id)
         /\ e.kind = "watchlist" =>
              (watchlist_num_unique_id(n.limit_type, e) = n.unique_id
               /\ sensor_unique_id(n) = e.unique_id)
    /\ \A e1, e2 \in entities :
         (/\ e1.kind = e2.kind /\ e1.account_id = e2.account_id
          /\ e1.symbol = e2.symbol /\ e1.limit_type = e2.limit_type
          /\ e1.kind \in {"holding", "watchlist", "limit"})
            => e1.unique_id = e2.unique_id

\* C13 witness: a holding sensor and a watchlist sensor are exposed together
\* with their limit numbers, over several cycles.
C13_Witness ==
    /\ cycle > 1
    /\ \E e \in entities : e.kind = "holding" /\ Cardinality(LimitsOf(e)) = 2
    /\ \E e \in entities : e.kind = "watchlist" /\ Cardinality(LimitsOf(e)) = 2

\* The state string is one of a number.
IsNumberState(state) == \E v \in LimitValues : state \in {ToString(v), FloatStr(v)}

\* C14 (as claimed): for a stored limit state of 0 the evaluator returns
\* (isSet = false, isReached = false), whatever the current value and the comparator.
C14_ZeroLimitIsAbsent ==
    (limit_status # << >> /\ limit_status[1].entity_id
       /\ limit_status[1].state_obj \in {ToString(0), FloatStr(0)})
    => (~limit_status[1].result.is_set /\ ~limit_status[1].result.is_reached)

\* C15: isReached never holds without isSet; for a set limit v, isReached
\* holds exactly when currentValue > 0 and currentValue <= v (low), resp.
\* currentValue >= v (high).
C15_ReachedIffComparatorHolds ==
    limit_status # << >> =>
        LET st == limit_status[1] IN
        /\ st.result.is_reached => st.result.is_set
        /\ st.result.is_set =>
             \E v \in LimitValues :
                /\ st.state_obj \in {ToString(v), FloatStr(v)}
                /\ st.result.is_reached <=>
                     (st.current_value > 0
                      /\ IF st.limit_type = "low" THEN st.current_value <= v
                         ELSE st.current_value >= v)

\* C15 witness: limit 50, current value 45, low comparator: set and reached.
C15_Witness ==
    /\ limit_status # << >>
    /\ limit_status[1].state_obj = FloatStr(50) /\ limit_status[1].current_value = 45
    /\ limit_status[1].limit_type = "low"
    /\ limit_status[1].result = [is_set |-> TRUE, is_reached |-> TRUE]

\* C16: a limit number that is not registered, has no state, has the state
\* unknown or unavailable, or a state that is no number, evaluates to
\* (false, false).
C16_MissingLimitIsNotSet ==
    (limit_status # << >>
       /\ (\/ ~limit_status[1].entity_id
           \/ limit_status[1].state_obj \in {NoState, "unknown", "unavailable"}
           \/ ~IsNumberState(limit_status[1].state_obj)))
    => limit_status[1].result = [is_set |-> FALSE, is_reached |-> FALSE]

\* C16 witness: a registered limit number whose state is no number was read
\* against a positive current value.
C16_Witness ==
    /\ limit_status # << >>
    /\ limit_status[1].entity_id /\ limit_status[1].state_obj = "abc"
    /\ limit_status[1].current_value > 0
    /\ limit_status[1].result = [is_set |-> FALSE, is_reached |-> FALSE]

\* The history of the resolver run, its length, and the price of its entry i
\* (0 for an entry without a price).
RunHistory == resolved[1].history
RunLen == Len(resolved[1].history)
RunPrice(i) ==
    IF resolved[1].history[i].marketPrice = NoNum THEN 0
    ELSE resolved[1].history[i].marketPrice[1]

\* The position of the entry whose date the resolver wrote.
ResolvedIndex == CHOOSE i \in 1..RunLen : RunHistory[i].date = resolved[1].result.marketDate

\* The resolver left both change fields as they were.
NoChangeWritten ==
    /\ resolved[1].result.marketChange = resolved[1].item.marketChange
    /\ resolved[1].result.marketChangePercentage = resolved[1].item.marketChangePercentage

\* The resolver wrote the change of the resolved price against entry i.
ChangeWrittenAgainst(i) ==
    /\ resolved[1].result.marketChange = Num(resolved[1].result.marketPrice[1] - RunPrice(i))
    /\ resolved[1].result.marketChangePercentage =
         Num([num |-> (resolved[1].result.marketPrice[1] - RunPrice(i)) * 100,
              den |-> RunPrice(i)])

\* The entry 5 steps back from the last one, or the oldest.
FiveBack == IF RunLen > max_lookback THEN RunLen - max_lookback ELSE 1

\* The last entry and every entry examined in the 5 backward steps carry the
\* same price.
FlatWithinBound ==
    /\ resolved # << >> /\ RunLen > 0
    /\ \A i \in FiveBack..RunLen : RunPrice(i) = RunPrice(RunLen)

\* C17 (as claimed): on a history that is flat within the 5-step bound the
\* resolver resolves to the entry 5 steps back (or the oldest) and writes no
\* change fields, whatever the length of the history.
C17_FlatHistoryWritesNoChange ==
    FlatWithinBound =>
        /\ resolved[1].result.marketDate = RunHistory[FiveBack].date
        /\ resolved[1].result.marketPrice = Num(RunPrice(FiveBack))
        /\ NoChangeWritten

\* C17 (amended): on such a history the resolver resolves to the entry 5 steps
\* back (or the oldest); it writes no change fields when no entry precedes
\* the resolved one or that entry's price is not positive, and otherwise
\* writes the change against that entry.
C17_FlatHistoryResolvesFiveBack ==
    FlatWithinBound =>
        /\ resolved[1].result.marketDate = RunHistory[FiveBack].date
        /\ resolved[1].result.marketPrice = Num(RunPrice(FiveBack))
        /\ IF FiveBack > 1 /\ RunPrice(FiveBack - 1) > 0
           THEN ChangeWrittenAgainst(FiveBack - 1)
           ELSE NoChangeWritten

\* C17 witness: seven entries of price 10: resolved to the second entry, with
\* a change of 0 written against the first.
C17_Witness ==
    /\ FlatWithinBound /\ RunLen = MaxHistory /\ RunPrice(1) = RunPrice(RunLen)
    /\ RunPrice(RunLen) > 0
    /\ resolved[1].result.marketDate = RunHistory[FiveBack].date
    /\ resolved[1].result.marketChange = Num(0)

\* C18 (as claimed): the backward walk never steps from an entry to the one
\* before it when either of the two has a price of zero or no price.
C18_WalkStopsAtZero ==
    (resolved # << >> /\ RunLen > 0) =>
        \A i \in (ResolvedIndex + 1)..RunLen : RunPrice(i) # 0 /\ RunPrice(i - 1) # 0

\* C19: after the resolver settled on an entry, the change fields are written
\* if and only if an entry precedes it and has a price > 0, with
\* change = resolved price - previous price and percentage = change /
\* previous price * 100; prices 10, 10, 10, 12 give 12 on the last date with
\* change 2 and 20 percent.
C19_ChangeAgainstPreviousEntry ==
    (resolved # << >> /\ RunLen > 0) =>
        /\ IF ResolvedIndex > 1 /\ RunPrice(ResolvedIndex - 1) > 0
           THEN ChangeWrittenAgainst(ResolvedIndex - 1)
           ELSE NoChangeWritten
        /\ (RunLen = 4 /\ RunPrice(1) = 10 /\ RunPrice(2) = 10
              /\ RunPrice(3) = 10 /\ RunPrice(4) = 12) =>
             /\ resolved[1].result.marketPrice = Num(12)
             /\ resolved[1].result.marketDate = RunHistory[4].date
             /\ resolved[1].result.marketChange = Num(2)
             /\ resolved[1].result.marketChangePercentage[1].num
                  = 20 * resolved[1].result.marketChangePercentage[1].den

\* C19 witness: the history 10, 10, 10, 12 was resolved for an item that
\* carried change fields already.
C19_Witness ==
    /\ resolved # << >> /\ RunLen = 4
    /\ RunPrice(1) = 10 /\ RunPrice(2) = 10 /\ RunPrice(3) = 10 /\ RunPrice(4) = 12
    /\ resolved[1].item.marketChange = Num(1)
    /\ resolved[1].result.marketChange = Num(2)

\* C20: with an empty history the item's price, date and change fields stay
\* as they were; with a history of one entry the price and date are that
\* entry's and the change fields stay as they were.
C20_EmptyAndSingleHistory ==
    resolved # << >> =>
        /\ RunLen = 0 =>
             /\ resolved[1].result.marketPrice = resolved[1].item.marketPrice
             /\ resolved[1].result.marketDate = resolved[1].item.marketDate
             /\ NoChangeWritten
        /\ RunLen = 1 =>
             /\ resolved[1].result.marketPrice = Num(RunPrice(1))
             /\ resolved[1].result.marketDate = RunHistory[1].date
             /\ NoChangeWritten

\* C20 witness: an item that carried price fields was run against an empty
\* history and kept them.
C20_Witness ==
    /\ resolved # << >> /\ RunLen = 0
    /\ resolved[1].item.marketPrice = Num(5)
    /\ resolved[1].result.marketPrice = Num(5)
    /\ resolved[1].result.marketChange = Num(1)

\* r, in hundredths of a percent, is num / den * 100 rounded to two decimals.
IsPercentOf(r, num, den) ==
    LET diff == r * den - num * 10000 IN 2 * Abs(diff) <= Abs(den)

\* C21 (as claimed): the simple gain of the portfolio and of an account is
\* (value - cost) / cost * 100 when cost > 0 (1200 against 1000 gives 20) and
\* None whenever cost is absent, zero or negative.
C21_SimpleGainUndefinedWithoutPositiveCost ==
    (metric # << >> /\ metric[1].sensor \in {"simple_gain_percent", "account_simple_gain"}) =>
        LET value == metric[1].value
            cost == metric[1].cost
            result == metric[1].result
        IN /\ (cost # NoNum /\ cost[1] > 0 /\ value # NoNum) =>
                /\ result # NoNum
                /\ IsPercentOf(result[1], value[1] - cost[1], cost[1])
                /\ (value = Num(1200) /\ cost = Num(1000)) => result = Num(2000)
           /\ (cost = NoNum \/ cost[1] <= 0) => result = NoNum

\* C22 (as claimed): a holding's gain percentage is gainValue / investment *
\* 100 when investment > 0 and undefined (not 0) when investment is absent or
\* not positive.
C22_GainPercentUndefinedWithoutInvestment ==
    (metric # << >> /\ metric[1].sensor = "holding") =>
        LET cost == metric[1].cost
            result == metric[1].result
        IN /\ result # << >>
           /\ (cost # NoNum /\ cost[1] > 0) =>
                /\ result[1].gain_pct # NoNum
                /\ IsPercentOf(result[1].gain_pct[1], result[1].gain_value, cost[1])
           /\ (cost = NoNum \/ cost[1] <= 0) => result[1].gain_pct = NoNum

\* What a reader gets who follows the installed snapshot's references.
ReaderView ==
    IF data = NoData THEN NoData
    ELSE << [data[1] EXCEPT !.watchlist = Deref(heap, installed)] >>

\* The snapshot the cycle in progress returns when run in one piece.
CycleSnapshot == AsyncUpdateData(build.world, show_holdings, show_watchlist).snapshot

\* C23: no object of the cycle in progress is an object of the installed
\* snapshot; what a reader sees changes only in the step that installs the
\* returned dict, and is then the complete snapshot of that cycle; at every
\* other point it is the snapshot as it was installed.
C23_SnapshotNeverTorn ==
    /\ [](/\ ReaderView = data
          /\ { build.raw_items[k] : k \in DOMAIN build.raw_items }
                \cap { installed[k] : k \in DOMAIN installed } = {})
    /\ [][ /\ ReaderView' # ReaderView => data' # data
           /\ data' # data =>
                /\ build.pc = "return" /\ build'.pc = "idle"
                /\ data' = << CycleSnapshot >>
                /\ ReaderView' = data' ]_vars

\* C23 witness: while a snapshot with a watchlist item is installed, the
\* cycle in progress has written a price into its own item of that symbol.
C23_Witness ==
    /\ data # NoData /\ build.pc = "items"
    /\ \E j \in DOMAIN installed : \E k \in DOMAIN build.watchlist_items :
          /\ heap[build.watchlist_items[k]].symbol = heap[installed[j]].symbol
          /\ heap[build.watchlist_items[k]].marketPrice # NoNum
          /\ heap[installed[j]].marketPrice = NoNum

\* The call is one of the two mandatory ones.
IsMandatory(c) == c.arg = None /\ c.endpoint \in {"account", "performance"}

\* C24: the calls of a cycle start with the account-list call; the global
\* performance call is the second and is issued only after the account-list
\* call returned; every further call is a per-account, watchlist or
\* market-data call and is issued only after both mandatory calls returned.
C24_MandatoryCallsFirstAndInOrder ==
    /\ Len(calls) >= 1 => calls[1] \in { Call("account", None, ok) : ok \in BOOLEAN }
    /\ Len(calls) >= 2 =>
          /\ calls[1].ok
          /\ calls[2] \in { Call("performance", None, ok) : ok \in BOOLEAN }
    /\ \A k \in 3..Len(calls) :
          /\ calls[1].ok /\ calls[2].ok
          /\ ~IsMandatory(calls[k])

\* C24 witness: a cycle issued per-account, watchlist and market-data calls
\* after its two mandatory calls.
C24_Witness ==
    /\ Len(calls) >= 5
    /\ \E k \in 3..Len(calls) : calls[k].endpoint = "holdings"
    /\ \E k \in 3..Len(calls) : calls[k].endpoint = "watchlist"
    /\ \E k \in 3..Len(calls) : calls[k].endpoint = "market-data"

\* The step ran a cycle against world w and installed its snapshot.
InstalledFrom(w) ==
    /\ cycle' # cycle /\ last_update_success'
    /\ async_setup_entry(w) \/ Refresh(w)

\* C25: with holdings disabled no holdings call is issued and account_holdings
\* is empty; with the watchlist disabled no watchlist or market-data call is
\* issued and the watchlist is empty; and the accounts, global performance
\* and per-account performance parts of an installed snapshot are those of
\* the snapshot the same responses give with both options enabled.
C25_OptionsOnlyAffectTheirParts ==
    /\ [](/\ ~show_holdings =>
               /\ \A k \in DOMAIN calls : calls[k].endpoint # "holdings"
               /\ data # NoData => data[1].account_holdings = EmptyMap
          /\ ~show_watchlist =>
               /\ \A k \in DOMAIN calls : calls[k].endpoint \notin {"watchlist", "market-data"}
               /\ data # NoData => data[1].watchlist = << >>)
    /\ [][ \A w \in OptionWorlds :
             (InstalledFrom(w) /\ ~AsyncUpdateData(w, TRUE, TRUE).raised) =>
                 LET full == AsyncUpdateData(w, TRUE, TRUE).snapshot IN
                 /\ data'[1].accounts = full.accounts
                 /\ data'[1].global_performance = full.global_performance
                 /\ data'[1].account_performances = full.account_performances ]_vars

\* C25 witness: with both options disabled a snapshot with a non-excluded
\* account and its performance is installed, and the cycle issued neither a
\* holdings nor a watchlist call.
C25_Witness ==
    /\ ~show_holdings /\ ~show_watchlist /\ data # NoData /\ last_update_success
    /\ data[1].account_performances # EmptyMap
    /\ data[1].account_holdings = EmptyMap /\ data[1].watchlist = << >>
    /\ Len(calls) >= 3

\* The while loop as it runs on the history of the resolver run.
RunLoop == LookbackLoop(RunHistory, RunPrice(RunLen), -1, 0)

\* The passes through the loop body: one per step back, and one more when
\* the loop is left by its break.
BodyRuns ==
    RunLoop.lookback_count
    + (IF RunLoop.lookback_count < max_lookback /\ Abs(RunLoop.latest_idx) < RunLen
       THEN 1 ELSE 0)

\* The negative indexes the resolver subscripts the history with: the last
\* entry, one per pass of the loop body, the resolved entry, and its
\* predecessor when the statistics block reads it.
IndexesRead ==
    {-1, RunLoop.latest_idx}
    \cup { -(j + 1) : j \in 1..BodyRuns }
    \cup (IF Abs(RunLoop.latest_idx - 1) <= RunLen THEN {RunLoop.latest_idx - 1} ELSE {})

\* C26: on every non-empty history the loop body runs at most 5 times, every
\* index read lies inside the history, the resolved price is the price of the
\* newest entry and the resolved date is the date of one of the newest 6
\* entries, which carries that price.
C26_LookbackBoundedAndInRange ==
    (resolved # << >> /\ RunLen > 0) =>
        /\ ~RunLoop.raised
        /\ BodyRuns <= 5
        /\ \A k \in IndexesRead : RunLen + k + 1 \in 1..RunLen
        /\ resolved[1].result.marketPrice = Num(RunPrice(RunLen))
        /\ \E i \in 1..RunLen :
              /\ i >= RunLen - 5
              /\ resolved[1].result.marketDate = RunHistory[i].date
              /\ RunPrice(i) = RunPrice(RunLen)

\* C26 witness: on a flat history of 7 entries the loop made its 5 steps and
\* resolved to the sixth-newest entry.
C26_Witness ==
    /\ resolved # << >> /\ RunLen = 7
    /\ RunLoop.lookback_count = 5 /\ BodyRuns = 5
    /\ resolved[1].result.marketDate = RunHistory[2].date
    /\ -7 \in IndexesRead

\* C27 (as claimed): every item of the installed snapshot's watchlist that has
\* a symbol has an exposed watchlist entity whose item_data is that item and
\* whose value is its price, and two items of the watchlist that differ in
\* symbol or data source have different entity keys.
C27_WatchlistItemHasReadingEntity ==
    data # NoData =>
        /\ \A k \in DOMAIN data[1].watchlist :
             LET item == data[1].watchlist[k] IN
             item.symbol # None =>
                \E e \in entities :
                   /\ e.kind = "watchlist"
                   /\ item_data(data, e) = << item >>
                   /\ WatchlistNativeValue(data, e) = item.marketPrice
        /\ \A j, k \in DOMAIN data[1].watchlist :
             LET a == data[1].watchlist[j]
                 b == data[1].watchlist[k]
             IN (a.symbol # None /\ b.symbol # None
                   /\ <<a.symbol, a.dataSource>> # <<b.symbol, b.dataSource>>)
                  => WatchlistUniqueId(a.symbol) # WatchlistUniqueId(b.symbol)

\* The key the sensor paired with the limit number was created with.
PairedSensorKey ==
    IF limit_number.account_id = "watchlist_scope"
    THEN WatchlistUniqueId(limit_number.symbol)
    ELSE HoldingUniqueId(limit_number.account_id, limit_number.symbol)

\* C28: as long as async_set_native_value was the last handler to run, the
\* stored value is None or non-zero; the handler writes the state of that
\* value first and triggers at most one sensor update after it; the update
\* is triggered exactly when the registry knows the sensor of the number's
\* account scope and symbol, and for that sensor only.
C28_SetValueClearsZeroAndTriggersPairedSensor ==
    /\ [](limit_effects.handler = "async_set_native_value" =>
             (limit_native = NoNum \/ limit_native[1] # 0))
    /\ [][ (limit_effects' # limit_effects
              /\ limit_effects'.handler = "async_set_native_value") =>
             /\ limit_state' = (IF limit_native' = NoNum THEN "unknown"
                                ELSE FloatStr(limit_native'[1]))
             /\ Len(limit_effects'.log) \in {1, 2}
             /\ limit_effects'.log[1] =
                   [op |-> "write_state", unique_id |-> limit_number.unique_id]
             /\ \A k \in DOMAIN limit_effects'.log :
                   limit_effects'.log[k].op = "update_entity" =>
                       /\ k > 1
                       /\ limit_effects'.log[k].unique_id = PairedSensorKey
                       /\ PairedSensorKey \in sensor_registry
             /\ PairedSensorKey \in sensor_registry => Len(limit_effects'.log) = 2 ]_vars

\* C28 witness: a watchlist limit was set to 0 while the registry knew its
\* sensor and a holding sensor of the same symbol: the value is cleared, the
\* state written, and the watchlist sensor triggered.
C28_Witness ==
    /\ limit_effects.handler = "async_set_native_value"
    /\ limit_number.account_id = "watchlist_scope"
    /\ limit_native = NoNum /\ limit_state = "unknown"
    /\ sensor_registry = {WatchlistUniqueId(limit_number.symbol),
                          HoldingUniqueId(AccountId(1), limit_number.symbol)}
    /\ Len(limit_effects.log) = 2
    /\ limit_effects.log[2].unique_id = WatchlistUniqueId(limit_number.symbol)

\* The data sources of the holdings and watchlist items of the snapshot.
SnapshotSources ==
    { data[1].watchlist[k].dataSource : k \in DOMAIN data[1].watchlist }
    \cup UNION { { data[1].account_holdings[a][k].dataSource
                     : k \in DOMAIN data[1].account_holdings[a] }
                 : a \in DOMAIN data[1].account_holdings }

\* C29: an installed snapshot has exactly the five keys and no providers
\* entry; no data source of it counts as down, the portfolio and account
\* health checks are true, and the value of every holding and watchlist
\* sensor whose record is in the snapshot is the value of that record.
C29_NoProviderGating ==
    IF data = NoData
    THEN is_portfolio_healthy(data) /\ is_account_healthy(data, AccountId(1))
    ELSE /\ DOMAIN data[1] = {"accounts", "global_performance", "account_performances",
                              "account_holdings", "watchlist"}
         /\ \A ds \in SnapshotSources \cup {None} : ~_is_provider_down(data[1], ds)
         /\ is_portfolio_healthy(data)
         /\ \A k \in DOMAIN data[1].accounts.accounts :
               is_account_healthy(data, data[1].accounts.accounts[k].id)
         /\ SimpleGainPercentNativeValue(data)
               = SimpleGain(global_performance_data(data).currentValueInBaseCurrency,
                            global_performance_data(data).totalInvestment)
         /\ \A e \in entities :
               /\ (e.kind = "holding" /\ holding_data(data, e) # << >>) =>
                     HoldingNativeValue(data, e)
                        = PyOr(holding_data(data, e)[1].valueInBaseCurrency,
                               holding_data(data, e)[1].value)
               /\ (e.kind = "watchlist" /\ item_data(data, e) # << >>) =>
                     WatchlistNativeValue(data, e) = item_data(data, e)[1].marketPrice

\* C29 witness: a holding sensor and a watchlist sensor report the values of
\* their records, which name a data source.
C29_Witness ==
    /\ data # NoData
    /\ \E e \in entities :
          /\ e.kind = "holding" /\ holding_data(data, e) # << >>
          /\ holding_data(data, e)[1].dataSource = "YAHOO"
          /\ HoldingNativeValue(data, e) = Num(150)
    /\ \E e \in entities :
          /\ e.kind = "watchlist" /\ e.data_source = "YAHOO"
          /\ WatchlistNativeValue(data, e) = Num(12)

\* C30: as long as no first refresh has succeeded there is no snapshot, no
\* known key and no registered entity; a set-up whose first refresh fails
\* registers nothing and stays not set up; and the set-up that succeeds
\* installs a complete snapshot and reconciles against it.
C30_NoReconciliationBeforeFirstSnapshot ==
    /\ [](~loaded => /\ data = NoData /\ entities = {} /\ new_entities = << >>
                     /\ known_ids = {} /\ number_known_ids = {})
    /\ [][ /\ (~loaded /\ cycle' # cycle /\ ~last_update_success') =>
                (~loaded' /\ entities' = {} /\ known_ids' = {})
           /\ (~loaded /\ loaded') =>
                /\ last_update_success' /\ data' # NoData
                /\ DOMAIN data'[1] = {"accounts", "global_performance",
                                      "account_performances", "account_holdings",
                                      "watchlist"}
                /\ UniqueIds(entities')
                      \subseteq UniqueIds(GlobalSensors) \cup ImpliedSensorKeys(data'[1]) ]_vars

\* C30 witness: a first refresh has failed, on the global performance call,
\* and nothing is registered.
C30_Witness ==
    /\ ~loaded /\ cycle >= 1 /\ ~last_update_success
    /\ Len(calls) = 2 /\ ~calls[2].ok
    /\ entities = {} /\ data = NoData

====
